---------------------------- MODULE Spec2Model ----------------------------
(***************************************************************************)
(* Citation verification of memo-drafter: the memo citation parser         *)
(* (src/verifier/citation_parser.py), the source adapters with their disk  *)
(* caches (local_opinions.py, courtlistener.py, nd_courts.py,              *)
(* nd_statutes.py, caselaw.py) and the orchestrator (verifier.py).         *)
(*                                                                         *)
(* Text is a sequence of lexemes (numerals, words, punctuation marks and   *)
(* whitespace runs), so that normalisation, splitting and joining are      *)
(* computed, and "" is the empty sequence.  A memo is a sequence of lines; *)
(* a line is the sequence of pattern matches found in it, each with its    *)
(* matched text and its capture groups (the prose between the matches      *)
(* matches no pattern and is left out, and with it Citation.context).      *)
(* VerificationResult keeps exists, full_citation, source and error; the   *)
(* case name and the URL are copied from the fetched content and no        *)
(* decision reads them.                                                    *)
(*                                                                         *)
(* The record citation extractor (src/extractor/record_citations.py) reads *)
(* a brief character by character: its text is a sequence of characters.   *)
(***************************************************************************)
EXTENDS Integers, Sequences, FiniteSets, TLC

VARIABLES
    api_key,        \* courtlistener_api_key handed to CitationVerifier
    court_data_dir, \* court_data_dir handed to CitationVerifier
    memo,           \* the memo text under verification
    now,            \* wall clock, seconds
    cache,          \* the disk caches: partition -> key -> <<>> or <<entry>>
    pc,             \* position of the caller
    runs,           \* verify_memo runs started so far
    case_cites,     \* verify_memo: case_cites
    statute_cites,  \* verify_memo: statute_cites
    idx,            \* verify_memo: index into the list being looped over
    step,           \* _verify_case: position in the fallback chain
    inflight,       \* <<>> or <<request>>: the request a task is suspended on
    report,         \* the VerificationReport under construction
    logged,         \* <<>> or <<summary>>: what line 85 logged
    attempts,       \* history: sources called for the current case citation
    returned,       \* history: <<>> or <<what _verify_case just returned>>
    calls,          \* history: (adapter, citation kind) pairs called in this run
    last,           \* history: adapter -> key -> <<>> or <<last verification>>
    ev,             \* history: <<>> or <<the last adapter event>>
    direct,         \* direct adapter calls made so far
    subject,        \* <<>> or <<the adapter that is called on its own>>
    since,          \* <<>> or <<seconds since a scraper last sent a request>>
    brief,          \* the brief handed to the record citation extractor
    numbers,        \* what the calls of extract_record_numbers returned, in order
    detected,       \* <<>> or <<what detect_case_number returned>>
    args,           \* the arguments format_items_file is called with
    items,          \* what the calls of format_items_file returned, in order
    tasks,          \* the runs that share the disk cache: run -> its position
    writes          \* history: the cache.set calls of these runs, in order

vars == <<api_key, court_data_dir, memo, now, cache, pc, runs, case_cites,
          statute_cites, idx, step, inflight, report, logged, attempts,
          returned, calls, last, ev, direct, subject, since, brief, numbers,
          detected, args, items, tasks, writes>>

---------------------------------------------------------------------------
(* Bounds of the model *)

MaxMemoCites == 2
MaxLines == 2
MaxRuns == 2
MaxTicks == 2
MaxDirect == 3
MaxCalls == 2

---------------------------------------------------------------------------
(* Text helpers *)

Whitespace == {" ", "  "}

RECURSIVE Join(_, _)
\* sep.join(parts), parts a sequence of texts
Join(sep, parts) ==
    IF parts = <<>> THEN <<>>
    ELSE IF Len(parts) = 1 THEN parts[1]
    ELSE parts[1] \o sep \o Join(sep, Tail(parts))

RECURSIVE LStrip(_)
LStrip(t) == IF t # <<>> /\ Head(t) \in Whitespace THEN LStrip(Tail(t)) ELSE t

RECURSIVE RStrip(_)
RStrip(t) ==
    IF t # <<>> /\ t[Len(t)] \in Whitespace THEN RStrip(SubSeq(t, 1, Len(t) - 1)) ELSE t

\* str.strip()
Strip(t) == RStrip(LStrip(t))

RECURSIVE SplitOn(_, _)
\* str.split(sep): the sequence of texts between occurrences of the lexeme sep
SplitOn(sep, t) ==
    IF \E i \in 1..Len(t) : t[i] = sep
    THEN LET i == CHOOSE i \in 1..Len(t) : t[i] = sep /\ \A j \in 1..(i - 1) : t[j] # sep
         IN  <<SubSeq(t, 1, i - 1)>> \o SplitOn(sep, SubSeq(t, i + 1, Len(t)))
    ELSE <<t>>

RECURSIVE Range(_)
\* The elements of a sequence
Range(q) == IF q = <<>> THEN {} ELSE {Head(q)} \cup Range(Tail(q))

RECURSIVE Digits(_)
\* str(n) for n >= 0, one lexeme per decimal digit
Digits(n) ==
    LET d == <<"0", "1", "2", "3", "4", "5", "6", "7", "8", "9">>
    IN  IF n < 10 THEN <<d[n + 1]>> ELSE Digits(n \div 10) \o <<d[(n % 10) + 1]>>

---------------------------------------------------------------------------
(* Memo citation parser: src/verifier/citation_parser.py *)

\* The order in which the PATTERNS dictionary is iterated
PATTERNS ==
    <<"nd_case", "nw2d", "us_case", "ndcc",
      "nd_rule_app", "nd_rule_civ", "nd_rule_ev", "record">>

\* The line separator of text.split("\n")
NL == [ctype |-> "newline", text |-> <<"\n">>, groups |-> <<>>]

\* The pattern matches a memo is written with: the matched text and the groups
\* the pattern of that kind captures in it.
Matches ==
    { [ctype |-> "nd_case", text |-> <<"2024", " ", "ND", " ", "156">>,
       groups |-> << <<"2024">>, <<"156">> >>],
      [ctype |-> "nd_case", text |-> <<"2024", "  ", "ND", " ", "156">>,
       groups |-> << <<"2024">>, <<"156">> >>],
      [ctype |-> "nw2d", text |-> <<"156", " ", "N.W.2d", " ", "45">>,
       groups |-> << <<"156">>, <<"45">> >>],
      [ctype |-> "us_case", text |-> <<"410", " ", "U.S.", " ", "113">>,
       groups |-> << <<"410">>, <<"113">> >>],
      [ctype |-> "ndcc", text |-> <<"N.D.C.C.", " ", "§", " ", "14", "-", "09", "-", "06.2">>,
       groups |-> << <<"14", "-", "09", "-", "06.2">> >>],
      [ctype |-> "ndcc", text |-> <<"N.D.C.C.", " ", "§", "14">>,
       groups |-> << <<"14">> >>],
      [ctype |-> "nd_rule_civ", text |-> <<"N.D.R.Civ.P.", " ", "12", "(", "b", ")">>,
       groups |-> << <<"12", "(", "b", ")">> >>],
      [ctype |-> "record", text |-> <<"(", "R", "45", ":", "12", ")">>,
       groups |-> << <<"45">>, <<"12">>, <<>> >>] }

\* A memo text: matches and line separators
MemoItems == Matches \cup {NL}

CountIn(t, S) == Cardinality({i \in 1..Len(t) : t[i] \in S})

Memos ==
    { t \in UNION { [1..n -> MemoItems] : n \in 0..(MaxMemoCites + MaxLines - 1) } :
        /\ CountIn(t, Matches) <= MaxMemoCites
        /\ CountIn(t, {NL}) < MaxLines }

\* text.split("\n")
SplitLines(text) == SplitOn(NL, text)

\* _normalize(ctype, match); an unmatched optional group is <<>>
_normalize(ctype, m) ==
    CASE ctype = "nd_case" -> m.groups[1] \o <<" ", "ND", " ">> \o m.groups[2]
      [] ctype = "nw2d" -> m.groups[1] \o <<" ", "N.W.2d", " ">> \o m.groups[2]
      [] ctype = "us_case" -> m.groups[1] \o <<" ", "U.S.", " ">> \o m.groups[2]
      [] ctype = "ndcc" -> m.groups[1]
      [] ctype \in {"nd_rule_app", "nd_rule_civ", "nd_rule_ev"} -> Strip(m.text)
      [] ctype = "record" ->
            Join(<<":">>,
                 <<m.groups[1]>>
                 \o (IF m.groups[2] # <<>> THEN <<m.groups[2]>> ELSE <<>>)
                 \o (IF m.groups[3] # <<>> THEN << <<"¶">> \o m.groups[3] >> ELSE <<>>))
      [] OTHER -> Strip(m.text)

Citation(m, line_num) ==
    [raw_text |-> m.text, citation_type |-> m.ctype,
     normalized |-> _normalize(m.ctype, m), line_number |-> line_num]

\* pattern.finditer(line) for the pattern of kind ctype
finditer(ctype, line) == SelectSeq(line, LAMBDA m : m.ctype = ctype)

RECURSIVE CitationsOf(_, _)
CitationsOf(ms, line_num) ==
    IF ms = <<>> THEN <<>>
    ELSE <<Citation(Head(ms), line_num)>> \o CitationsOf(Tail(ms), line_num)

RECURSIVE ParseLine(_, _, _)
\* the loop over PATTERNS.items() for one line, from pattern p on
ParseLine(line, line_num, p) ==
    IF p > Len(PATTERNS) THEN <<>>
    ELSE CitationsOf(finditer(PATTERNS[p], line), line_num)
         \o ParseLine(line, line_num, p + 1)

RECURSIVE ParseLines(_, _)
ParseLines(lines, line_num) ==
    IF lines = <<>> THEN <<>>
    ELSE ParseLine(Head(lines), line_num, 1) \o ParseLines(Tail(lines), line_num + 1)

parse_citations(text) == ParseLines(SplitLines(text), 1)

\* The citations of some kinds, every occurrence of them
UniqueOf_every_occurrence(cites, types, seen) ==
    SelectSeq(cites, LAMBDA c : c.citation_type \in types)

RECURSIVE UniqueOf(_, _, _)
\* the seen/unique loop of the two extract_unique_* functions
UniqueOf(cites, types, seen) ==
    IF cites = <<>> THEN <<>>
    ELSE LET c == Head(cites)
         IN  IF c.citation_type \in types /\ c.normalized \notin seen
             THEN <<c>> \o UniqueOf(Tail(cites), types, seen \cup {c.normalized})
             ELSE UniqueOf(Tail(cites), types, seen)

CaseTypes == {"nd_case", "nw2d", "us_case"}

extract_unique_case_citations(text) == UniqueOf(parse_citations(text), CaseTypes, {})

extract_unique_statute_citations(text) == UniqueOf(parse_citations(text), {"ndcc"}, {})

\* The citations handed to an adapter that is called on its own
DirectKeys ==
    { <<"2024", " ", "ND", " ", "156">>, <<"410", " ", "U.S.", " ", "113">>,
      <<"14", "-", "09", "-", "06.2">>, <<"14">>, <<"14", "(", "1", "-", "2", ")">> }

\* Every citation text an adapter is handed, the normalized citations of the
\* memos among them: the keys of the caches
Keys == { _normalize(m.ctype, m) : m \in Matches } \cup DirectKeys

---------------------------------------------------------------------------
(* Record citation extractor: src/extractor/record_citations.py *)

\* The en dash U+2013 and the em dash U+2014, each one character of a text
EnDash == "en-dash"
EmDash == "em-dash"

\* \s, \d and the class of the hyphen, the en dash and the em dash
Blank == {" ", "\n", "\t"}
DigitChars == {"0", "1", "2", "3", "4", "5", "6", "7", "8", "9"}
Dash == {"-", EnDash, EmDash}

UpperCase ==
    <<"A", "B", "C", "D", "E", "F", "G", "H", "I", "J", "K", "L", "M",
      "N", "O", "P", "Q", "R", "S", "T", "U", "V", "W", "X", "Y", "Z">>
LowerCase ==
    <<"a", "b", "c", "d", "e", "f", "g", "h", "i", "j", "k", "l", "m",
      "n", "o", "p", "q", "r", "s", "t", "u", "v", "w", "x", "y", "z">>

\* [A-Za-z]
Letters == Range(UpperCase) \cup Range(LowerCase)

\* A character as re.IGNORECASE compares it
Lower(c) ==
    IF c \in Range(UpperCase)
    THEN LowerCase[CHOOSE i \in 1..Len(UpperCase) : UpperCase[i] = c]
    ELSE c

Upper(c) ==
    IF c \in Range(LowerCase)
    THEN UpperCase[CHOOSE i \in 1..Len(LowerCase) : LowerCase[i] = c]
    ELSE c

\* The character at position i of a text, "" outside it
At(t, i) == IF i \in 1..Len(t) THEN t[i] ELSE ""

RECURSIVE SkipWhile(_, _, _)
\* A greedy S*: the first position from i on whose character is not in S
SkipWhile(t, i, S) == IF At(t, i) \in S THEN SkipWhile(t, i + 1, S) ELSE i

\* The text reads word at position i; with ci, letter case aside
Reads(t, i, word, ci) ==
    \A k \in 1..Len(word) :
        IF ci THEN Lower(At(t, i + k - 1)) = word[k] ELSE At(t, i + k - 1) = word[k]

\* \.? and \s*:?\s* from position i on
AfterDot(t, i) == IF At(t, i) = "." THEN i + 1 ELSE i
AfterColon(t, i) ==
    LET j == SkipWhile(t, i, Blank)
    IN  IF At(t, j) = ":" THEN SkipWhile(t, j + 1, Blank) ELSE j

\* str.strip() of a text of characters
Trim(t) ==
    LET first == SkipWhile(t, 1, Blank)
        ends == {j \in first..Len(t) : t[j] \notin Blank}
    IN  IF ends = {} THEN <<>>
        ELSE SubSeq(t, first, CHOOSE j \in ends : \A x \in ends : x <= j)

RECURSIVE ToInt(_)
\* int(digits)
ToInt(ds) ==
    IF ds = <<>> THEN 0
    ELSE 10 * ToInt(SubSeq(ds, 1, Len(ds) - 1))
         + (CHOOSE n \in 0..9 : Digits(n) = <<ds[Len(ds)]>>)

\* The range expansion cap
_MAX_RANGE_SIZE == 1000

_expand_range(start, end) ==
    IF end < start THEN {start, end}
    ELSE IF end - start + 1 > _MAX_RANGE_SIZE THEN {start, end}
    ELSE start..end

\* _RE_STRIP_PREFIX.sub("", segment).  The alternatives R, Rec\.? and Idx\.?
\* are tried in this order and the rest of the pattern matches the empty
\* text, so the first one that reads is taken: R wherever Rec reads.
StripPrefix(segment) ==
    LET i == SkipWhile(segment, 1, Blank)
        e == IF Reads(segment, i, <<"r">>, TRUE)
             THEN AfterColon(segment, i + 1)
             ELSE IF Reads(segment, i, <<"r", "e", "c">>, TRUE)
             THEN AfterColon(segment, AfterDot(segment, i + 3))
             ELSE IF Reads(segment, i, <<"i", "d", "x">>, TRUE)
             THEN AfterColon(segment, AfterDot(segment, i + 3))
             ELSE 1
    IN  SubSeq(segment, e, Len(segment))

\* The second number of a range, after the optional prefix
\* (?:R(?:ec)?\.?\s*:?\s*|Idx\.?\s*)?, from position c on: the position of its
\* first digit, 0 if there is none.  In _RE_INNER_RANGE only the first letter
\* of the prefix is read in either case ([Rr], [Ii]); under re.IGNORECASE
\* (ci) every letter is.
SecondNumberAt(t, c, ci) ==
    LET afterRec == IF Reads(t, c + 1, <<"e", "c">>, ci) THEN c + 3 ELSE c + 1
        viaR == AfterColon(t, AfterDot(t, afterRec))
        viaIdx == SkipWhile(t, AfterDot(t, c + 3), Blank)
    IN  IF Reads(t, c, <<"r">>, TRUE) /\ At(t, viaR) \in DigitChars THEN viaR
        ELSE IF /\ Reads(t, c, <<"i">>, TRUE)
                /\ Reads(t, c + 1, <<"d", "x">>, ci)
                /\ At(t, viaIdx) \in DigitChars
        THEN viaIdx
        ELSE IF At(t, c) \in DigitChars THEN c
        ELSE 0

\* _RE_INNER_RANGE.match(segment): <<>>, or <<group 1, group 2>>
InnerRange(segment) ==
    LET a == SkipWhile(segment, 1, DigitChars)
        b == SkipWhile(segment, a, Blank)
        c == SkipWhile(segment, b + 1, Blank)
        p == SecondNumberAt(segment, c, FALSE)
    IN  IF a > 1 /\ At(segment, b) \in Dash /\ p # 0
        THEN <<SubSeq(segment, 1, a - 1),
               SubSeq(segment, p, SkipWhile(segment, p, DigitChars) - 1)>>
        ELSE <<>>

\* _RE_INNER_NUM.search(t): <<>>, or <<group 1>>
FirstNumber(t) ==
    LET ds == {i \in 1..Len(t) : t[i] \in DigitChars}
    IN  IF ds = {} THEN <<>>
        ELSE LET i == CHOOSE i \in ds : \A x \in ds : i <= x
             IN  <<SubSeq(t, i, SkipWhile(t, i, DigitChars) - 1)>>

RECURSIVE NumbersFrom(_, _)
\* Every number written in a text from position i on
NumbersFrom(t, i) ==
    IF i > Len(t) THEN {}
    ELSE IF t[i] \in DigitChars
    THEN {ToInt(SubSeq(t, i, SkipWhile(t, i, DigitChars) - 1))}
         \cup NumbersFrom(t, SkipWhile(t, i, DigitChars))
    ELSE NumbersFrom(t, i + 1)

\* What the loop body would add if it took every number of a segment
SegmentNumbers_every_number(seg) == NumbersFrom(StripPrefix(Trim(seg)), 1)

\* _extract_from_paren_group: the body of the loop over the segments
SegmentNumbers(seg) ==
    LET segment == StripPrefix(Trim(seg))
        range_match == InnerRange(segment)
        first_part == Trim(SplitOn(":", segment)[1])
        num_match == FirstNumber(first_part)
    IN  IF range_match # <<>>
        THEN _expand_range(ToInt(range_match[1]), ToInt(range_match[2]))
        ELSE IF num_match # <<>> THEN {ToInt(num_match[1])}
        ELSE {}

_extract_from_paren_group(group_text) ==
    LET stripped == Trim(group_text)
        opened == IF At(stripped, 1) = "(" THEN Tail(stripped) ELSE stripped
        interior == IF At(opened, Len(opened)) = ")"
                    THEN SubSeq(opened, 1, Len(opened) - 1) ELSE opened
        segments == SplitOn(",", interior)
    IN  UNION { SegmentNumbers(segments[k]) : k \in 1..Len(segments) }

\* _RE_PAREN_GROUP matched at position i: the position after the match, 0 if
\* there is none.  [^)]* takes whatever follows the prefix up to the first ")".
ParenGroupEnd(t, i) ==
    LET j == SkipWhile(t, i + 1, Blank)
        closes == {k \in j..Len(t) : t[k] = ")"}
    IN  IF /\ At(t, i) = "("
           /\ \/ Reads(t, j, <<"r">>, TRUE)
              \/ Reads(t, j, <<"r", "e", "c">>, TRUE)
              \/ Reads(t, j, <<"i", "d", "x">>, TRUE)
           /\ closes # {}
        THEN (CHOOSE k \in closes : \A x \in closes : k <= x) + 1
        ELSE 0

RECURSIVE ParenGroups(_, _)
\* _RE_PAREN_GROUP.finditer(text) from position i on: the spans <<start, end>>
ParenGroups(t, i) ==
    IF i > Len(t) THEN <<>>
    ELSE IF ParenGroupEnd(t, i) # 0
    THEN << <<i, ParenGroupEnd(t, i)>> >> \o ParenGroups(t, ParenGroupEnd(t, i))
    ELSE ParenGroups(t, i + 1)

\* The first number of _RE_BARE for a prefix that starts at position i: the
\* alternatives R, Rec and Idx are tried in this order, each followed by
\* \.?\s*:?\s*(\d+).  The position of the first digit, 0 if none matches.
BareNumberAt(t, i) ==
    LET number(j) == AfterColon(t, AfterDot(t, j))
    IN  IF Reads(t, i, <<"r">>, TRUE) /\ At(t, number(i + 1)) \in DigitChars
        THEN number(i + 1)
        ELSE IF Reads(t, i, <<"r", "e", "c">>, TRUE) /\ At(t, number(i + 3)) \in DigitChars
        THEN number(i + 3)
        ELSE IF Reads(t, i, <<"i", "d", "x">>, TRUE) /\ At(t, number(i + 3)) \in DigitChars
        THEN number(i + 3)
        ELSE 0

\* _RE_BARE without its lookbehind (?<![A-Za-z.]), matched at position i
BareMatch_unguarded(t, i) ==
    LET p == BareNumberAt(t, i)
        q == SkipWhile(t, p, DigitChars)
        r == SkipWhile(t, q, Blank)
        p2 == IF At(t, r) \in Dash
              THEN SecondNumberAt(t, SkipWhile(t, r + 1, Blank), TRUE) ELSE 0
        q2 == SkipWhile(t, p2, DigitChars)
    IN  IF p = 0 THEN <<>>
        ELSE <<[start |-> i,
                end |-> IF p2 # 0 THEN q2 ELSE q,
                group1 |-> SubSeq(t, p, q - 1),
                group2 |-> IF p2 # 0 THEN <<SubSeq(t, p2, q2 - 1)>> ELSE <<>>]>>

\* _RE_BARE matched at position i: <<>>, or <<the match>>
BareMatch(t, i) ==
    LET p == BareNumberAt(t, i)
        q == SkipWhile(t, p, DigitChars)
        r == SkipWhile(t, q, Blank)
        p2 == IF At(t, r) \in Dash
              THEN SecondNumberAt(t, SkipWhile(t, r + 1, Blank), TRUE) ELSE 0
        q2 == SkipWhile(t, p2, DigitChars)
    IN  IF At(t, i - 1) \in Letters \cup {"."} \/ p = 0 THEN <<>>
        ELSE <<[start |-> i,
                end |-> IF p2 # 0 THEN q2 ELSE q,
                group1 |-> SubSeq(t, p, q - 1),
                group2 |-> IF p2 # 0 THEN <<SubSeq(t, p2, q2 - 1)>> ELSE <<>>]>>

RECURSIVE BareMatches(_, _)
\* _RE_BARE.finditer(text) from position i on
BareMatches(t, i) ==
    IF i > Len(t) THEN <<>>
    ELSE IF BareMatch(t, i) # <<>>
    THEN BareMatch(t, i) \o BareMatches(t, BareMatch(t, i)[1].end)
    ELSE BareMatches(t, i + 1)

\* extract_record_numbers: the numbers of the parenthesized groups
Phase1(text) ==
    UNION { _extract_from_paren_group(SubSeq(text, g[1], g[2] - 1)) :
              g \in Range(ParenGroups(text, 1)) }

\* The numbers of all bare references, those inside the spans of the
\* parenthesized groups too
Phase2_everywhere(text) ==
    UNION { IF m.group2 # <<>>
            THEN _expand_range(ToInt(m.group1), ToInt(m.group2[1]))
            ELSE {ToInt(m.group1)} :
              m \in Range(BareMatches(text, 1)) }

\* extract_record_numbers: the numbers of the bare references that start
\* outside the spans of the parenthesized groups
Phase2(text) ==
    LET consumed_spans == Range(ParenGroups(text, 1))
    IN  UNION { IF \E g \in consumed_spans : g[1] <= m.start /\ m.start < g[2]
                THEN {}
                ELSE IF m.group2 # <<>>
                THEN _expand_range(ToInt(m.group1), ToInt(m.group2[1]))
                ELSE {ToInt(m.group1)} :
                  m \in Range(BareMatches(text, 1)) }

\* What the function would return without its second phase
extract_record_numbers_paren_only(text) == Phase1(text)

extract_record_numbers(text) == Phase1(text) \cup Phase2(text)

RECURSIVE sorted_descending(_)
\* The numbers of a set from the greatest down
sorted_descending(S) ==
    IF S = {} THEN <<>>
    ELSE LET greatest == CHOOSE n \in S : \A x \in S : x <= n
         IN  <<greatest>> \o sorted_descending(S \ {greatest})

RECURSIVE sorted(_)
\* sorted(S) of a set of integers
sorted(S) ==
    IF S = {} THEN <<>>
    ELSE LET least == CHOOSE n \in S : \A x \in S : n <= x
         IN  <<least>> \o sorted(S \ {least})

\* str(n) filled with zeros on the left to a width
ZeroFilled(n, width) ==
    [k \in 1..(width - Len(Digits(n))) |-> "0"] \o Digits(n)

\* date.isoformat() of <<year, month, day>>
isoformat(d) ==
    ZeroFilled(d[1], 4) \o <<"-">> \o ZeroFilled(d[2], 2) \o <<"-">> \o ZeroFilled(d[3], 2)

\* The lines "R{num}" of the numbers in a sequence
ItemLines(nums) == [k \in 1..Len(nums) |-> <<"R">> \o Digits(nums[k])]

\* format_items_file; today is what date.today() returns.  The text is a
\* sequence of lexemes: a fixed phrase, a file name or a case number is one
\* lexeme, a number is written digit by digit, "\n" ends a line.
format_items_file(record_numbers, source_files, case_number, today) ==
    LET lines ==
            << <<"# Record citations extracted from briefs">> >>
            \o (IF case_number # <<>> THEN << <<"# Case: ">> \o case_number >> ELSE <<>>)
            \o << <<"# Source: ">> \o Join(<<", ">>, source_files) >>
            \o << <<"# Date: ">> \o isoformat(today) >>
            \o << <<"# Total unique items: ">> \o Digits(Cardinality(record_numbers)) >>
            \o ItemLines(sorted(record_numbers))
    IN  Join(<<"\n">>, lines) \o <<"\n">>

\* \w, and \d{n} at position i
WordChars == Letters \cup DigitChars \cup {"_"}
DigitsAt(t, i, n) == \A k \in 0..(n - 1) : At(t, i + k) \in DigitChars

\* (\d{8}|\d{2}-\d{4}-[A-Z]{2,4}-\d+) under re.IGNORECASE matched at position
\* p: the position after the match, 0 if there is none
DocketEnd(t, p) ==
    LET letters == p + 8
        dash == SkipWhile(t, letters, Letters)
    IN  IF DigitsAt(t, p, 8) THEN p + 8
        ELSE IF /\ DigitsAt(t, p, 2) /\ At(t, p + 2) = "-"
                /\ DigitsAt(t, p + 3, 4) /\ At(t, p + 7) = "-"
                /\ dash - letters \in 2..4
                /\ At(t, dash) = "-" /\ At(t, dash + 1) \in DigitChars
        THEN SkipWhile(t, dash + 1, DigitChars)
        ELSE 0

\* (?:Case\s+(?:No\.?|Number)\s*:?\s*|No\.\s*) under re.IGNORECASE matched at
\* position i: the position after the label, 0 if there is none
LabelEnd(t, i) ==
    LET j == SkipWhile(t, i + 4, Blank)
    IN  IF Reads(t, i, <<"c", "a", "s", "e">>, TRUE) /\ j > i + 4
        THEN IF Reads(t, j, <<"n", "o">>, TRUE)
             THEN AfterColon(t, AfterDot(t, j + 2))
             ELSE IF Reads(t, j, <<"n", "u", "m", "b", "e", "r">>, TRUE)
             THEN AfterColon(t, j + 6)
             ELSE 0
        ELSE IF Reads(t, i, <<"n", "o", ".">>, TRUE)
        THEN SkipWhile(t, i + 3, Blank)
        ELSE 0

\* _RE_CASE_NUMBER.search(text): <<>>, or <<group 1>> of the leftmost match
CaseNumberSearch(t) ==
    LET found == {i \in 1..Len(t) : LabelEnd(t, i) # 0 /\ DocketEnd(t, LabelEnd(t, i)) # 0}
    IN  IF found = {} THEN <<>>
        ELSE LET i == CHOOSE i \in found : \A x \in found : i <= x
                 p == LabelEnd(t, i)
             IN  <<SubSeq(t, p, DocketEnd(t, p) - 1)>>

\* _RE_DOCKET_NUMBER.search(text): <<>>, or <<group 1>> of the leftmost match
\* of \b(20\d{6})\b
DocketNumberSearch(t) ==
    LET found == {i \in 1..Len(t) :
                    /\ Reads(t, i, <<"2", "0">>, FALSE)
                    /\ DigitsAt(t, i, 8)
                    /\ At(t, i - 1) \notin WordChars
                    /\ At(t, i + 8) \notin WordChars}
    IN  IF found = {} THEN <<>>
        ELSE LET i == CHOOSE i \in found : \A x \in found : i <= x
             IN  <<SubSeq(t, i, i + 7)>>

\* What the function would return if it looked for a bare docket number first
detect_case_number_bare_first(text) ==
    IF DocketNumberSearch(text) # <<>> THEN DocketNumberSearch(text)[1]
    ELSE IF CaseNumberSearch(text) # <<>> THEN CaseNumberSearch(text)[1]
    ELSE <<>>

detect_case_number(text) ==
    IF CaseNumberSearch(text) # <<>> THEN CaseNumberSearch(text)[1]
    ELSE IF DocketNumberSearch(text) # <<>> THEN DocketNumberSearch(text)[1]
    ELSE <<>>

\* The arguments of format_items_file: record numbers, the names of the
\* briefs, each name one lexeme, and the case number, "" by default
ItemArgs ==
    [record_numbers : SUBSET {2, 10, 33},
     source_files : { <<>>, << <<"brief.pdf">> >>, << <<"a.pdf">>, <<"b.pdf">> >> },
     case_number : { <<>>, <<"20260123">>, <<"54-2020-CV-00012">> }]

\* format_items_file is not called
NoArgs == [record_numbers |-> {}, source_files |-> <<>>, case_number |-> <<>>]

\* The days date.today() returns
Dates == { <<2026, 2, 18>>, <<2026, 11, 5>> }

\* The briefs: a range reference [prefix]A-[prefix]B, parenthesized or bare
PrefixWords ==
    { <<"R">>, <<"R", ".">>, <<"R", "e", "c">>, <<"R", "e", "c", ".">>,
      <<"I", "d", "x">>, <<"I", "d", "x", ".">> }

\* A word as written, in lower case, in upper case
Cased(w, how) ==
    [k \in 1..Len(w) |-> CASE how = "lower" -> Lower(w[k])
                           [] how = "upper" -> Upper(w[k])
                           [] OTHER -> w[k]]

\* The spellings of a record prefix, followed by a space or not
Prefixes ==
    { Cased(w, how) \o sp :
        w \in PrefixWords, how \in {"written", "lower", "upper"}, sp \in {<<>>, <<" ">>} }

\* The bounds A and B of the ranges
RangeBounds ==
    { <<45, 47>>, <<7, 7>>, <<1, _MAX_RANGE_SIZE>>,
      <<47, 45>>, <<1, _MAX_RANGE_SIZE + 1>> }

RangeBriefs ==
    { [kind |-> "range", paren |-> paren, prefix |-> prefix, prefix2 |-> prefix2,
       first |-> ab[1], last |-> ab[2],
       text |-> LET ref == prefix \o Digits(ab[1]) \o <<dash>> \o prefix2
                           \o Digits(ab[2])
                IN  IF paren THEN <<"(">> \o ref \o <<")">> ELSE ref] :
        paren \in BOOLEAN, prefix \in Prefixes, prefix2 \in Prefixes \cup {<<>>},
        ab \in RangeBounds, dash \in {"-", EnDash} }

\* A reference to a page, or to a page and a paragraph, of a record item:
\* [prefix]N:page and [prefix]N:page:paragraph, parenthesized or bare
PageBriefs ==
    { [kind |-> "page", paren |-> paren, prefix |-> prefix, number |-> 45,
       page |-> 12, paragraph |-> paragraph,
       text |-> LET ref == prefix \o Digits(45) \o <<":">> \o Digits(12) \o paragraph
                IN  IF paren THEN <<"(">> \o ref \o <<")">> ELSE ref] :
        paren \in BOOLEAN, prefix \in Prefixes,
        paragraph \in { <<>>, <<":", "3">>, <<":", "¶", "3">> } }

\* Citations of court rules: N.D.R.Civ.P. 12(b), N.D.R.App.P. 35.1 and
\* N.D.R.Ev. 401
RuleBriefs ==
    { [kind |-> "rule", text |-> t] : t \in
    { <<"N", ".", "D", ".", "R", ".", "C", "i", "v", ".", "P", ".", " ",
        "1", "2", "(", "b", ")">>,
      <<"N", ".", "D", ".", "R", ".", "A", "p", "p", ".", "P", ".", " ",
        "3", "5", ".", "1">>,
      <<"N", ".", "D", ".", "R", ".", "E", "v", ".", " ", "4", "0", "1">> } }

\* A bare reference [prefix]N written right after one character
FollowingBriefs ==
    { [kind |-> "following", before |-> c, prefix |-> prefix, number |-> 45,
       text |-> <<c>> \o prefix \o Digits(45)] :
        c \in {"x", "A", "R", "c", ".", " ", ",", "4"}, prefix \in Prefixes }

\* One record item referenced twice: each reference [prefix]N, parenthesized
\* or bare, or the list (RN, N)
Refs(n) ==
    { IF paren THEN <<"(">> \o prefix \o Digits(n) \o <<")">> ELSE prefix \o Digits(n) :
        paren \in BOOLEAN, prefix \in PrefixWords }
    \cup { <<"(", "R">> \o Digits(n) \o <<",", " ">> \o Digits(n) \o <<")">> }

RepeatBriefs ==
    { [kind |-> "repeat", number |-> 45, first |-> r1, second |-> r2,
       text |-> r1 \o <<" ">> \o r2] : r1 \in Refs(45), r2 \in Refs(45) }

\* A parenthesized group ([prefix]N<between>[prefix]M) whose second
\* reference is neither a segment of its own nor the end of a range, followed
\* by a bare reference outside the group or by nothing
InsideBriefs ==
    { [kind |-> "inside", prefix |-> prefix, prefix2 |-> prefix2, between |-> between,
       number |-> 45, inner |-> 46, outer |-> outer,
       text |-> <<"(">> \o prefix \o Digits(45) \o between \o prefix2 \o Digits(46)
                \o <<")">>
                \o (IF outer = {} THEN <<>>
                    ELSE <<" ", "R">> \o Digits(CHOOSE n \in outer : TRUE))] :
        prefix \in Prefixes, prefix2 \in PrefixWords,
        between \in { <<" ">>, <<":", "1", "2", " ">>, <<":", "1", "2", "-">>,
                      <<" ", "a", "t", " ">> },
        outer \in { {}, {47} } }

\* A parenthesized remark whose first word begins with R, or does not, and
\* is no record prefix
WordBriefs ==
    { [kind |-> "word", first |-> t[2], text |-> t] : t \in
    { <<"(", "R", "u", "l", "e", " ", "1", "2", ")">>,
      <<"(", "R", "e", "v", "e", "r", "s", "e", "d", ",", " ", "2", "0", "2", "0", ")">>,
      <<"(", "R", "e", "m", "a", "n", "d", "e", "d", ")">>,
      <<"(", "s", "e", "e", " ", "R", "u", "l", "e", " ", "1", "2", ")">> } }

Briefs ==
    RangeBriefs \cup PageBriefs \cup RuleBriefs \cup FollowingBriefs \cup RepeatBriefs
    \cup InsideBriefs \cup WordBriefs

\* The briefs detect_case_number reads: some text, a label or none, a
\* docket number or what is none, some text
DocketBriefs ==
    LET Labels ==
            { <<"C", "a", "s", "e", " ", "N", "o", ".", " ">>,
              <<"C", "a", "s", "e", " ", "N", "o", " ">>,
              <<"C", "a", "s", "e", " ", "N", "u", "m", "b", "e", "r", ":", " ">>,
              <<"C", "A", "S", "E", " ", "N", "U", "M", "B", "E", "R", ":">>,
              <<"c", "a", "s", "e", " ", "n", "o", ".", ":", " ">>,
              <<"N", "o", ".", " ">>,
              <<"N", "o", ".">> }
        NoLabels ==
            { <<>>,
              <<"N", "o", " ">>,
              <<"C", "a", "s", "e", " ">>,
              <<"N", "u", "m", "b", "e", "r", " ">> }
        Dockets ==
            { <<"2", "0", "2", "6", "0", "1", "2", "3">>,
              <<"5", "4", "-", "2", "0", "2", "0", "-", "C", "V", "-", "0", "0", "0", "1", "2">>,
              <<"1", "9", "9", "9", "0", "1", "2", "3">> }
        NoDockets ==
            { <<>>,
              <<"2", "0", "2", "6", "0", "1", "2">>,
              <<"5", "4", "-", "2", "0", "2", "0", "-", "C", "R", "I", "M", "I", "-", "0", "0", "0", "1", "2">> }
        Preambles ==
            { [text |-> <<>>, tokens |-> <<>>],
              [text |-> Digits(20250001) \o <<" ">>, tokens |-> <<Digits(20250001)>>],
              [text |-> <<"C", "o", "u", "r", "t", " ">> \o Digits(20250001) \o <<",", " ">>,
               tokens |-> <<Digits(20250001)>>] }
        Closings ==
            { [text |-> <<>>, tokens |-> <<>>],
              [text |-> <<";", " ">> \o Digits(20270007), tokens |-> <<Digits(20270007)>>] }
    IN
    { [kind |-> "docket",
       labeled |-> IF label \in Labels /\ docket \in Dockets THEN <<docket>> ELSE <<>>,
       tokens |-> pre.tokens
                  \o (IF docket = Digits(20260123) THEN <<docket>> ELSE <<>>)
                  \o post.tokens,
       text |-> pre.text \o label \o docket \o post.text] :
        pre \in Preambles, label \in Labels \cup NoLabels,
        docket \in Dockets \cup NoDockets, post \in Closings }

\* No brief is read
NoBrief ==
    [kind |-> "none", paren |-> FALSE, prefix |-> <<>>, prefix2 |-> <<>>,
     first |-> 0, last |-> 0, text |-> <<>>]

---------------------------------------------------------------------------
(* Environment of the adapters *)

\* Values of the courtlistener_api_key setting: unset, a token with a trailing
\* comment, a comment only
ApiKeys == { <<>>, <<"tok_abc", " ", "#", "prod">>, <<"#", "unset">> }

\* Values of the court_data setting: unset, a directory with markdown/, one without
DataDirs == { <<>>, <<"/srv/court">>, <<"/tmp/empty">> }

\* The directories that exist on disk
Dirs == { <<"/srv/court", "/", "markdown">> }

\* What one HTTP request can end in: a 2xx answer that holds the citation, a
\* 2xx answer that does not, a 500 answer, httpx.ReadTimeout (whose str() is
\* empty), httpx.ConnectError
Responses == {"ok_hit", "ok_miss", "http_error", "timeout", "connect_error"}

\* str(e) of the exception a request raises
ExceptionText(o) ==
    CASE o = "timeout" -> <<>>
      [] o = "connect_error" -> <<"All connection attempts failed">>
      [] OTHER -> <<"Server error '500 Internal Server Error'">>

FourDigit == {"2024"}
Numerals == {"2024", "156", "410", "113", "45", "14", "09", "12"}

\* re.match(r"(\d{4})\s+ND\s+(\d+)", citation) succeeds
MatchesNDCase(citation) ==
    /\ Len(citation) >= 5
    /\ citation[1] \in FourDigit
    /\ citation[2] \in Whitespace
    /\ citation[3] = "ND"
    /\ citation[4] \in Whitespace
    /\ citation[5] \in Numerals

---------------------------------------------------------------------------
(* VerificationResult and the disk cache *)

VerificationResult(exists, full_citation, source, error) ==
    [exists |-> exists, full_citation |-> full_citation, source |-> source,
     error |-> error]

Adapters == {"local", "courtlistener", "nd_courts", "nd_statutes", "caselaw"}

\* get_cache(name, cache_dir): one partition per adapter that holds a cache
Partitions == {"courtlistener", "nd_courts", "nd_statutes", "caselaw"}

\* Cache.get(key): an entry is visible while it has no expiry or its expiry
\* lies in the future
CacheGet(part, key) ==
    LET e == cache[part][key]
    IN  IF e = <<>> THEN <<>>
        ELSE IF e[1].expire_time = <<>> \/ e[1].expire_time[1] > now
             THEN <<e[1].value>>
             ELSE <<>>

\* Cache.set(key, value, expire=expire); expire <<>> is None
CacheSet(part, key, value, expire) ==
    [cache EXCEPT ![part][key] =
        <<[value |-> value,
           expire_time |-> IF expire = <<>> THEN <<>> ELSE <<now + expire[1]>>]>>]

\* What a call, or its resumption, comes to: it returns a result (how: from the
\* "cache", after an external "lookup", after a lookup that "failed" with an
\* exception, or with "none" of these; store: the cache.set it made, if any),
\* it is suspended on a request, or it raises an exception no clause caught
Returned(result, how, store) ==
    [kind |-> "return", result |-> result, how |-> how, store |-> store, stage |-> 0]
Suspended(stage) ==
    [kind |-> "await", result |-> <<>>, how |-> "lookup", store |-> <<>>, stage |-> stage]
Raises ==
    [kind |-> "raise", result |-> <<>>, how |-> "failed", store |-> <<>>, stage |-> 0]
NoStore == <<>>
Store(expire) == <<[expire |-> expire]>>

\* The seconds a negative result stays cached
NegativeExpire == 86400

---------------------------------------------------------------------------
(* Source adapters *)

\* LocalOpinionLookup.__init__: available
LocalAvailable ==
    court_data_dir # <<>> /\ (court_data_dir \o <<"/", "markdown">>) \in Dirs

\* LocalOpinionLookup.verify_citation; is_file is what filepath.is_file() answers
LocalOpinionLookup_verify_citation(citation, is_file) ==
    IF ~LocalAvailable
    THEN Returned(VerificationResult(FALSE, <<>>, "local", <<"Local data not configured">>),
                  "none", NoStore)
    ELSE IF ~MatchesNDCase(citation)
    THEN Returned(VerificationResult(FALSE, <<>>, "local", <<"Not an ND citation">>),
                  "none", NoStore)
    ELSE IF is_file
    THEN Returned(VerificationResult(TRUE, citation, "local", <<>>), "lookup", NoStore)
    ELSE Returned(VerificationResult(FALSE, <<>>, "local", <<"Not found in local data">>),
                  "lookup", NoStore)

\* CourtListenerClient.__init__: the key stripped of comment and whitespace
CourtListenerKey == IF api_key # <<>> THEN Strip(SplitOn("#", api_key)[1]) ELSE <<>>

CourtListenerAvailable == CourtListenerKey # <<>>

\* CourtListenerClient.verify_citation up to its first request
CourtListenerClient_verify_citation(citation) ==
    IF ~CourtListenerAvailable
    THEN Returned(VerificationResult(FALSE, <<>>, "courtlistener", <<"No API key">>),
                  "none", NoStore)
    ELSE IF CacheGet("courtlistener", citation) # <<>>
    THEN Returned(CacheGet("courtlistener", citation)[1], "cache", NoStore)
    ELSE Suspended(1)

\* CourtListenerClient._lookup_citation, given the answer to its request:
\* the result it returns, or the exception it raises
CourtListenerClient__lookup_citation(citation, o) ==
    CASE o = "ok_hit" ->
            [raised |-> "", result |-> VerificationResult(TRUE, citation, "courtlistener", <<>>)]
      [] o = "ok_miss" ->
            [raised |-> "", result |-> VerificationResult(FALSE, <<>>, "courtlistener", <<>>)]
      [] o = "http_error" -> [raised |-> "HTTPStatusError", result |-> <<>>]
      [] OTHER -> [raised |-> "Exception", result |-> <<>>]

\* Mutant of CourtListenerClient_resume: only httpx.HTTPStatusError is caught
CourtListenerClient_resume_http_only(citation, o) ==
    LET out == CourtListenerClient__lookup_citation(citation, o)
    IN  IF out.raised = ""
        THEN Returned(out.result, "lookup",
                      Store(IF out.result.exists THEN <<>> ELSE <<NegativeExpire>>))
        ELSE IF out.raised = "HTTPStatusError"
        THEN Returned(VerificationResult(FALSE, <<>>, "courtlistener", <<"HTTP ", "500">>),
                      "failed", NoStore)
        ELSE Raises

\* CourtListenerClient.verify_citation from the answer to its request on
CourtListenerClient_resume(citation, o) ==
    LET out == CourtListenerClient__lookup_citation(citation, o)
    IN  IF out.raised = ""
        THEN Returned(out.result, "lookup",
                      Store(IF out.result.exists THEN <<>> ELSE <<NegativeExpire>>))
        ELSE IF out.raised = "HTTPStatusError"
        THEN Returned(VerificationResult(FALSE, <<>>, "courtlistener", <<"HTTP ", "500">>),
                      "failed", NoStore)
        ELSE Returned(VerificationResult(FALSE, <<>>, "courtlistener", ExceptionText(o)),
                      "failed", NoStore)

\* NDCourtsScraper._search once its request is answered (response.raise_for_status()
\* raises on a 500 answer)
NDCourtsScraper__search(citation, o) ==
    CASE o = "ok_hit" ->
            [raised |-> "", result |-> VerificationResult(TRUE, citation, "nd_courts", <<>>)]
      [] o = "ok_miss" ->
            [raised |-> "", result |-> VerificationResult(FALSE, <<>>, "nd_courts", <<>>)]
      [] OTHER -> [raised |-> "Exception", result |-> <<>>]

\* NDCourtsScraper.verify_citation up to its first request; _search answers a
\* citation its pattern does not match without a request
NDCourtsScraper_verify_citation(citation) ==
    IF CacheGet("nd_courts", citation) # <<>>
    THEN Returned(CacheGet("nd_courts", citation)[1], "cache", NoStore)
    ELSE IF ~MatchesNDCase(citation)
    THEN LET result == VerificationResult(FALSE, <<>>, "nd_courts", <<>>)
         IN  Returned(result, "none",
                      Store(IF result.exists THEN <<>> ELSE <<NegativeExpire>>))
    ELSE Suspended(1)

\* Mutant of NDCourtsScraper_resume: every result is stored with the 24-hour expiry
NDCourtsScraper_resume_all_expire(citation, o) ==
    LET out == NDCourtsScraper__search(citation, o)
    IN  IF out.raised = ""
        THEN Returned(out.result, "lookup", Store(<<NegativeExpire>>))
        ELSE Returned(VerificationResult(FALSE, <<>>, "nd_courts", ExceptionText(o)),
                      "failed", NoStore)

\* NDCourtsScraper.verify_citation from the answer to its request on
NDCourtsScraper_resume(citation, o) ==
    LET out == NDCourtsScraper__search(citation, o)
    IN  IF out.raised = ""
        THEN Returned(out.result, "lookup",
                      Store(IF out.result.exists THEN <<>> ELSE <<NegativeExpire>>))
        ELSE Returned(VerificationResult(FALSE, <<>>, "nd_courts", ExceptionText(o)),
                      "failed", NoStore)

\* re.sub(r"\(.*\)", "", section): from the first "(" to the last ")"
StripSubsection(section) ==
    LET opens == {i \in 1..Len(section) : section[i] = "("}
        closes == {j \in 1..Len(section) : section[j] = ")"}
    IN  IF \E i \in opens, j \in closes : i < j
        THEN LET i == CHOOSE i \in opens : \A x \in opens : i <= x
                 j == CHOOSE j \in closes : \A x \in closes : x <= j
             IN  SubSeq(section, 1, i - 1) \o SubSeq(section, j + 1, Len(section))
        ELSE section

\* Mutant of BaseSection: the subsections are left in
BaseSection_with_subsections(section) == Strip(section)

\* NDStatutesScraper._lookup: base_section
BaseSection(section) == Strip(StripSubsection(section))

\* NDStatutesScraper._lookup once the request of a stage is answered: stage 1
\* is the chapter page, stage 2 the site search; neither raises on a non-200
\* answer.  "next" is set when the second request follows.
NDStatutesScraper__lookup(section, stage, o) ==
    LET found == VerificationResult(TRUE, <<"N.D.C.C.", " ", "§", " ">> \o section, "nd_statutes", <<>>)
        missing == VerificationResult(FALSE, <<>>, "nd_statutes", <<>>)
    IN  CASE o = "ok_hit" -> [raised |-> "", next |-> FALSE, result |-> found]
          [] o \in {"timeout", "connect_error"} ->
                [raised |-> "Exception", next |-> FALSE, result |-> <<>>]
          [] OTHER -> [raised |-> "", next |-> (stage = 1), result |-> missing]

\* NDStatutesScraper.verify_statute up to its first request; _lookup answers a
\* section without a title-chapter split without a request
NDStatutesScraper_verify_statute(section) ==
    IF CacheGet("nd_statutes", section) # <<>>
    THEN Returned(CacheGet("nd_statutes", section)[1], "cache", NoStore)
    ELSE IF Len(SplitOn("-", BaseSection(section))) < 2
    THEN LET result == VerificationResult(FALSE, <<>>, "nd_statutes", <<>>)
         IN  Returned(result, "none",
                      Store(IF result.exists THEN <<>> ELSE <<NegativeExpire>>))
    ELSE Suspended(1)

\* NDStatutesScraper.verify_statute from the answer to a request on
NDStatutesScraper_resume(section, stage, o) ==
    LET out == NDStatutesScraper__lookup(section, stage, o)
    IN  IF out.raised # ""
        THEN Returned(VerificationResult(FALSE, <<>>, "nd_statutes", ExceptionText(o)),
                      "failed", NoStore)
        ELSE IF out.next THEN Suspended(2)
        ELSE Returned(out.result, "lookup",
                      Store(IF out.result.exists THEN <<>> ELSE <<NegativeExpire>>))

\* CaseLawClient.verify_citation up to its first request
CaseLawClient_verify_citation(citation) ==
    IF CacheGet("caselaw", citation) # <<>>
    THEN Returned(CacheGet("caselaw", citation)[1], "cache", NoStore)
    ELSE Suspended(1)

\* CaseLawClient._search once its request is answered
CaseLawClient__search(citation, o) ==
    CASE o = "ok_hit" ->
            [raised |-> "", result |-> VerificationResult(TRUE, citation, "caselaw", <<>>)]
      [] o = "ok_miss" ->
            [raised |-> "", result |-> VerificationResult(FALSE, <<>>, "caselaw", <<>>)]
      [] OTHER -> [raised |-> "Exception", result |-> <<>>]

\* CaseLawClient.verify_citation from the answer to its request on
CaseLawClient_resume(citation, o) ==
    LET out == CaseLawClient__search(citation, o)
    IN  IF out.raised = ""
        THEN Returned(out.result, "lookup",
                      Store(IF out.result.exists THEN <<>> ELSE <<NegativeExpire>>))
        ELSE Returned(VerificationResult(FALSE, <<>>, "caselaw", ExceptionText(o)),
                      "failed", NoStore)

\* The adapters that scrape a live site
Scrapers == {"nd_courts", "nd_statutes"}

\* Mutant of Delay: the statute scraper sends its site search without a sleep
Delay_first_request_only(a, stage) ==
    CASE a = "nd_courts" -> 1
      [] a = "nd_statutes" -> IF stage = 1 THEN 1 ELSE 0
      [] OTHER -> 0

\* The seconds of the asyncio.sleep that precedes the request of a stage
Delay(a, stage) ==
    CASE a = "nd_courts" -> 1
      [] a = "nd_statutes" -> 1
      [] OTHER -> 0

\* The seconds since a scraper last sent a request, once the sleep before the
\* request of a stage is over.  Nothing but a sleep is taken to last, and a
\* second is as far as the count goes.
SinceSlept(a, stage) ==
    IF since = <<>> THEN <<>>
    ELSE <<IF since[1] + Delay(a, stage) >= 1 THEN 1 ELSE since[1] + Delay(a, stage)>>

\* The request adapter a sends at a stage: slept is the sleep before it, gap
\* the seconds since the request a scraper sent before it, if one did
Request(a, key, stage, answers) ==
    [adapter |-> a, key |-> key, stage |-> stage, answers |-> answers,
     slept |-> Delay(a, stage), gap |-> SinceSlept(a, stage)]

\* since, once adapter a has sent the request of a stage
SinceSent(a, stage) == IF a \in Scrapers THEN <<0>> ELSE SinceSlept(a, stage)

\* A call of adapter a's verify method
Enter(a, key, is_file) ==
    CASE a = "local" -> LocalOpinionLookup_verify_citation(key, is_file)
      [] a = "courtlistener" -> CourtListenerClient_verify_citation(key)
      [] a = "nd_courts" -> NDCourtsScraper_verify_citation(key)
      [] a = "nd_statutes" -> NDStatutesScraper_verify_statute(key)
      [] a = "caselaw" -> CaseLawClient_verify_citation(key)

\* The task suspended on request req is resumed with answer o
Resume(req, o) ==
    CASE req.adapter = "courtlistener" -> CourtListenerClient_resume(req.key, o)
      [] req.adapter = "nd_courts" -> NDCourtsScraper_resume(req.key, o)
      [] req.adapter = "nd_statutes" -> NDStatutesScraper_resume(req.key, req.stage, o)
      [] req.adapter = "caselaw" -> CaseLawClient_resume(req.key, o)

\* The cache after the call that came to eff
CacheAfter(a, key, eff) ==
    IF eff.kind = "return" /\ eff.store # NoStore
    THEN CacheSet(a, key, eff.result, eff.store[1].expire)
    ELSE cache

---------------------------------------------------------------------------
(* Verification orchestrator: src/verifier/verifier.py *)

EmptyReport == [verified |-> <<>>, unverified |-> <<>>, skipped |-> <<>>, total_checked |-> 0]

\* Mutant of summary: the total counts the skipped citations too
summary_total_of_all(rep) ==
    <<"Verified: ">> \o Digits(Len(rep.verified))
    \o <<" | Unverified: ">> \o Digits(Len(rep.unverified))
    \o <<" | Skipped: ">> \o Digits(Len(rep.skipped))
    \o <<" | Total: ">> \o Digits(Len(rep.verified) + Len(rep.unverified) + Len(rep.skipped))

\* VerificationReport.summary
summary(rep) ==
    <<"Verified: ">> \o Digits(Len(rep.verified))
    \o <<" | Unverified: ">> \o Digits(Len(rep.unverified))
    \o <<" | Skipped: ">> \o Digits(Len(rep.skipped))
    \o <<" | Total: ">> \o Digits(rep.total_checked)

\* Mutant of AppendResult: a result with an empty error counts as verified
AppendResult_by_error(rep, c, result) ==
    IF result.error = <<>>
    THEN [rep EXCEPT !.verified = Append(@, <<c, result>>)]
    ELSE [rep EXCEPT !.unverified = Append(@, <<c, result>>)]

\* verify_memo: the result of one citation goes to verified or to unverified
AppendResult(rep, c, result) ==
    IF result.exists
    THEN [rep EXCEPT !.verified = Append(@, <<c, result>>)]
    ELSE [rep EXCEPT !.unverified = Append(@, <<c, result>>)]

\* Mutant of SkippedTypes: the evidence rules are left out and the statutes taken in
SkippedTypes_statutes_for_rules == {"record", "nd_rule_app", "nd_rule_civ", "ndcc"}

\* verify_memo: the kinds copied to skipped
SkippedTypes == {"record", "nd_rule_app", "nd_rule_civ", "nd_rule_ev"}

\* Mutant of SkippedOf: the skipped citations are made unique like the checked ones
SkippedOf_unique(text) == UniqueOf(parse_citations(text), SkippedTypes, {})

\* verify_memo, step 3: the citations copied to skipped
SkippedOf(text) ==
    SelectSeq(parse_citations(text), LAMBDA c : c.citation_type \in SkippedTypes)

\* Mutant of Chain: the backup Case.law adapter is tried last
Chain_with_caselaw == <<"local", "courtlistener", "nd_courts", "caselaw">>

\* Mutant of Chain: CourtListener is tried before the local data
Chain_reordered == <<"courtlistener", "local", "nd_courts">>

\* _verify_case: the sources of the fallback chain, in the order they are tried
Chain == <<"local", "courtlistener", "nd_courts">>

\* Mutant of Applies: the jurisdiction test of the local step is dropped
Applies_any_kind(src, c) ==
    CASE src = "local" -> LocalAvailable
      [] src = "courtlistener" -> CourtListenerAvailable
      [] src = "nd_courts" -> c.citation_type = "nd_case"
      [] OTHER -> TRUE

\* _verify_case: the condition under which a source of the chain is called
Applies(src, c) ==
    CASE src = "local" -> c.citation_type = "nd_case" /\ LocalAvailable
      [] src = "courtlistener" -> CourtListenerAvailable
      [] src = "nd_courts" -> c.citation_type = "nd_case"
      [] OTHER -> TRUE

\* _verify_case: a result that ends the chain
ReturnsEarly(result) == result.exists

\* Mutant of NotFoundSources: the scraper is listed whatever the kind
NotFoundSources_scraper_always(c) ==
    LET is_nd == c.citation_type = "nd_case"
    IN  (IF is_nd /\ LocalAvailable THEN << <<"local data">> >> ELSE <<>>)
        \o (IF CourtListenerAvailable THEN << <<"CourtListener">> >> ELSE <<>>)
        \o << <<"ND Courts">> >>

\* _verify_case: the names listed in the error of the synthesized result
NotFoundSources(c) ==
    LET is_nd == c.citation_type = "nd_case"
    IN  (IF is_nd /\ LocalAvailable THEN << <<"local data">> >> ELSE <<>>)
        \o (IF CourtListenerAvailable THEN << <<"CourtListener">> >> ELSE <<>>)
        \o (IF is_nd THEN << <<"ND Courts">> >> ELSE <<>>)

\* _verify_case: the synthesized result when no source confirmed the citation
NotFoundResult(c) ==
    LET sources == NotFoundSources(c)
        error == IF sources = <<>>
                 THEN <<"No verification sources available (set COURTLISTENER_API_KEY or COURT_DATA)">>
                 ELSE <<"Not found in ">> \o Join(<<", ">>, sources)
    IN  VerificationResult(FALSE, c.normalized, "none", error)

\* Mutant of cite: the loop takes the case citations from the last one
cite_from_last == case_cites[Len(case_cites) + 1 - idx]

\* The case citation whose chain is running
cite == case_cites[idx]

---------------------------------------------------------------------------
(* State machine *)

NoCache == [p \in Partitions |-> [k \in Keys |-> <<>>]]
NoHistory == [a \in Adapters |-> [k \in Keys |-> <<>>]]

Init ==
    /\ api_key \in ApiKeys
    /\ court_data_dir \in DataDirs
    /\ memo \in Memos
    /\ now = 0
    /\ cache = NoCache
    /\ pc = "idle"
    /\ runs = 0
    /\ case_cites = <<>>
    /\ statute_cites = <<>>
    /\ idx = 0
    /\ step = 0
    /\ inflight = <<>>
    /\ report = EmptyReport
    /\ logged = <<>>
    /\ attempts = <<>>
    /\ returned = <<>>
    /\ calls = {}
    /\ last = NoHistory
    /\ ev = <<>>
    /\ direct = 0
    /\ subject = <<>>
    /\ since = <<>>
    /\ brief = NoBrief
    /\ numbers = <<>>
    /\ detected = <<>>
    /\ args = NoArgs
    /\ items = <<>>
    /\ tasks = <<>>
    /\ writes = <<>>

config == <<api_key, court_data_dir, memo, subject>>
history == <<last, ev, direct>>
records == <<brief, numbers, detected, args, items>>
shared == <<tasks, writes>>

\* verify_memo is called: lines 53-57
verify_memo_start ==
    /\ pc \in {"idle", "done"}
    /\ runs < MaxRuns
    /\ runs' = runs + 1
    /\ report' = EmptyReport
    /\ logged' = <<>>
    /\ case_cites' = extract_unique_case_citations(memo)
    /\ statute_cites' = <<>>
    /\ idx' = 1
    /\ step' = 0
    /\ attempts' = <<>>
    /\ returned' = <<>>
    /\ calls' = {}
    /\ pc' = "case_loop"
    /\ since' = <<>>
    /\ UNCHANGED <<config, records, shared, now, cache, inflight, history>>

\* The head of the loop over case_cites (lines 58-61), and after it the
\* extraction of the statute citations (line 68)
case_loop ==
    /\ pc = "case_loop"
    /\ IF idx <= Len(case_cites)
       THEN /\ report' = [report EXCEPT !.total_checked = @ + 1]
            /\ step' = 1
            /\ pc' = "chain"
            /\ UNCHANGED <<statute_cites, idx>>
       ELSE /\ statute_cites' = extract_unique_statute_citations(memo)
            /\ idx' = 1
            /\ step' = 0
            /\ pc' = "statute_loop"
            /\ UNCHANGED report
    /\ attempts' = <<>>
    /\ returned' = <<>>
    /\ UNCHANGED <<config, records, shared, now, cache, runs, case_cites, inflight, logged, calls, history,
                   since>>

\* _verify_case is handed the result of source src: lines 98-99, 104-105, 110-111
ChainContinue(src, result) ==
    /\ attempts' = Append(attempts, [source |-> src, result |-> result])
    /\ IF ReturnsEarly(result)
       THEN /\ returned' = <<result>>
            /\ report' = AppendResult(report, cite, result)
            /\ idx' = idx + 1
            /\ pc' = "case_loop"
            /\ step' = step
       ELSE /\ step' = step + 1
            /\ pc' = "chain"
            /\ UNCHANGED <<report, idx, returned>>

\* _verify_case at a source of the chain: the source is passed over, or called
chain_step ==
    /\ pc = "chain"
    /\ step <= Len(Chain)
    /\ LET src == Chain[step]
       IN  IF ~Applies(src, cite)
           THEN /\ step' = step + 1
                /\ UNCHANGED <<cache, pc, idx, inflight, report, attempts, returned, calls,
                               since>>
           ELSE \E is_file \in BOOLEAN :
                  LET eff == Enter(src, cite.normalized, is_file)
                  IN  /\ calls' = calls \cup {[adapter |-> src, citation_type |-> cite.citation_type]}
                      /\ IF eff.kind = "await"
                         THEN /\ inflight' = <<Request(src, cite.normalized, eff.stage, <<>>)>>
                              /\ since' = SinceSent(src, eff.stage)
                              /\ pc' = "await_case"
                              /\ UNCHANGED <<cache, idx, step, report, attempts, returned>>
                         ELSE /\ cache' = CacheAfter(src, cite.normalized, eff)
                              /\ ChainContinue(src, eff.result)
                              /\ UNCHANGED <<inflight, since>>
    /\ UNCHANGED <<config, records, shared, now, runs, case_cites, statute_cites, logged, history>>

\* The request a chain source is suspended on is answered; an exception the
\* adapter lets through leaves _verify_case and verify_memo, which catch none
chain_resume ==
    /\ pc = "await_case"
    /\ \E o \in Responses :
         LET req == inflight[1]
             eff == Resume(req, o)
         IN  IF eff.kind = "await"
             THEN /\ inflight' = <<Request(req.adapter, req.key, eff.stage,
                                                Append(req.answers, o))>>
                  /\ since' = SinceSent(req.adapter, eff.stage)
                  /\ UNCHANGED <<cache, pc, idx, step, report, attempts, returned>>
             ELSE IF eff.kind = "raise"
             THEN /\ inflight' = <<>>
                  /\ pc' = "raised"
                  /\ UNCHANGED <<cache, idx, step, report, attempts, returned, since>>
             ELSE /\ inflight' = <<>>
                  /\ cache' = CacheAfter(req.adapter, req.key, eff)
                  /\ ChainContinue(req.adapter, eff.result)
                  /\ UNCHANGED since
    /\ UNCHANGED <<config, records, shared, now, runs, case_cites, statute_cites, logged, calls, history>>

\* _verify_case past the last source: lines 113-131
chain_not_found ==
    /\ pc = "chain"
    /\ step > Len(Chain)
    /\ returned' = <<NotFoundResult(cite)>>
    /\ report' = AppendResult(report, cite, returned'[1])
    /\ idx' = idx + 1
    /\ pc' = "case_loop"
    /\ UNCHANGED <<config, records, shared, now, cache, runs, case_cites, statute_cites, step, inflight,
                   logged, attempts, calls, history, since>>

\* The skip pass and the end of verify_memo: lines 80-86
Finish(rep) ==
    /\ report' = [rep EXCEPT !.skipped = @ \o SkippedOf(memo)]
    /\ logged' = <<summary(report')>>
    /\ pc' = "done"

\* The loop over statute_cites (lines 69-77), and after it the rest of verify_memo
statute_loop ==
    /\ pc = "statute_loop"
    /\ IF idx <= Len(statute_cites)
       THEN LET c == statute_cites[idx]
                eff == Enter("nd_statutes", c.normalized, FALSE)
                counted == [report EXCEPT !.total_checked = @ + 1]
            IN  /\ calls' = calls \cup {[adapter |-> "nd_statutes", citation_type |-> c.citation_type]}
                /\ IF eff.kind = "await"
                   THEN /\ inflight' = <<Request("nd_statutes", c.normalized, eff.stage, <<>>)>>
                        /\ since' = SinceSent("nd_statutes", eff.stage)
                        /\ report' = counted
                        /\ pc' = "await_statute"
                        /\ UNCHANGED <<cache, idx>>
                   ELSE /\ cache' = CacheAfter("nd_statutes", c.normalized, eff)
                        /\ report' = AppendResult(counted, c, eff.result)
                        /\ idx' = idx + 1
                        /\ UNCHANGED <<pc, inflight, since>>
                /\ UNCHANGED logged
       ELSE /\ Finish(report)
            /\ UNCHANGED <<cache, idx, inflight, calls, since>>
    /\ UNCHANGED <<config, records, shared, now, runs, case_cites, statute_cites, step, attempts, returned,
                   history>>

\* A request of the statute adapter is answered
statute_resume ==
    /\ pc = "await_statute"
    /\ \E o \in Responses :
         LET req == inflight[1]
             eff == Resume(req, o)
         IN  IF eff.kind = "await"
             THEN /\ inflight' = <<Request(req.adapter, req.key, eff.stage,
                                                Append(req.answers, o))>>
                  /\ since' = SinceSent(req.adapter, eff.stage)
                  /\ UNCHANGED <<cache, pc, idx, report>>
             ELSE IF eff.kind = "raise"
             THEN /\ inflight' = <<>>
                  /\ pc' = "raised"
                  /\ UNCHANGED <<cache, idx, report, since>>
             ELSE /\ inflight' = <<>>
                  /\ cache' = CacheAfter(req.adapter, req.key, eff)
                  /\ report' = AppendResult(report, statute_cites[idx], eff.result)
                  /\ idx' = idx + 1
                  /\ pc' = "statute_loop"
                  /\ UNCHANGED since
    /\ UNCHANGED <<config, records, shared, now, runs, case_cites, statute_cites, step, logged, attempts,
                   returned, calls, history>>

\* The seconds by which the clock advances between two calls
TickSeconds == NegativeExpire \div 2

\* Time passes between two calls: after a call, while another can follow
Tick ==
    /\ pc \in {"idle", "done"}
    /\ 0 < runs + direct /\ runs < MaxRuns /\ direct < MaxDirect
    /\ now < MaxTicks * TickSeconds
    /\ now' = now + TickSeconds
    /\ since' = IF since = <<>> THEN <<>> ELSE <<1>>
    /\ UNCHANGED <<config, records, shared, cache, pc, runs, case_cites, statute_cites, idx, step, inflight,
                   report, logged, attempts, returned, calls, history>>

Next ==
    \/ verify_memo_start
    \/ case_loop
    \/ chain_step
    \/ chain_resume
    \/ chain_not_found
    \/ statute_loop
    \/ statute_resume
    \/ Tick

Spec == Init /\ [][Next]_vars

\* The steps of a verify_memo run once it is called
Run ==
    \/ case_loop
    \/ chain_step
    \/ chain_resume
    \/ chain_not_found
    \/ statute_loop
    \/ statute_resume

\* verify_memo is called once, on empty caches
first_run == runs = 0 /\ verify_memo_start

NextRun ==
    \/ first_run
    \/ Run

\* One verify_memo run.  The event loop runs the coroutine whenever it can go
\* on, and every request ends, in an answer or in the exception of the
\* client's timeout (httpx.AsyncClient(timeout=30)).
SpecRun == Init /\ [][NextRun]_vars /\ WF_vars(Run)

---------------------------------------------------------------------------
(* The adapters called on their own, by any caller *)

\* One adapter is constructed, with the setting it reads, and no memo is verified
InitAdapters ==
    /\ subject \in {<<a>> : a \in Adapters}
    /\ api_key \in IF subject[1] = "courtlistener" THEN ApiKeys ELSE {<<>>}
    /\ court_data_dir \in IF subject[1] = "local" THEN DataDirs ELSE {<<>>}
    /\ memo = <<>>
    /\ now = 0
    /\ cache = NoCache
    /\ pc = "idle"
    /\ runs = 0
    /\ case_cites = <<>>
    /\ statute_cites = <<>>
    /\ idx = 0
    /\ step = 0
    /\ inflight = <<>>
    /\ report = EmptyReport
    /\ logged = <<>>
    /\ attempts = <<>>
    /\ returned = <<>>
    /\ calls = {}
    /\ last = NoHistory
    /\ ev = <<>>
    /\ direct = 0
    /\ since = <<>>
    /\ brief = NoBrief
    /\ numbers = <<>>
    /\ detected = <<>>
    /\ args = NoArgs
    /\ items = <<>>
    /\ tasks = <<>>
    /\ writes = <<>>

\* The history of a call of adapter a that returned: answers are the answers
\* to the requests it sent, lookups the external lookups it made (requests
\* sent, or the one look at the file system of the local adapter)
Completed(a, key, eff, answers) ==
    /\ ev' = <<[adapter |-> a, key |-> key, how |-> eff.how, result |-> eff.result,
                at |-> now, prev |-> last[a][key], answers |-> answers,
                lookups |-> IF a = "local" /\ eff.how = "lookup" THEN 1 ELSE Len(answers)]>>
    /\ last' = IF eff.how = "cache" THEN last
               ELSE [last EXCEPT ![a][key] =
                        <<[result |-> eff.result, at |-> now,
                           stored |-> eff.store # NoStore]>>]

\* A caller awaits a verify method of an adapter
direct_call ==
    /\ pc = "idle"
    /\ direct < MaxDirect
    /\ direct' = direct + 1
    /\ \E key \in DirectKeys, is_file \in BOOLEAN :
         LET a == subject[1]
             eff == Enter(a, key, is_file)
         IN  IF eff.kind = "await"
             THEN /\ inflight' = <<Request(a, key, eff.stage, <<>>)>>
                  /\ since' = SinceSent(a, eff.stage)
                  /\ pc' = "await_direct"
                  /\ UNCHANGED <<cache, last, ev>>
             ELSE /\ cache' = CacheAfter(a, key, eff)
                  /\ Completed(a, key, eff, <<>>)
                  /\ UNCHANGED <<pc, inflight, since>>
    /\ UNCHANGED <<config, records, shared, now, runs, case_cites, statute_cites, idx, step, report, logged,
                   attempts, returned, calls>>

\* The request of that call is answered
direct_resume ==
    /\ pc = "await_direct"
    /\ \E o \in Responses :
         LET req == inflight[1]
             eff == Resume(req, o)
         IN  IF eff.kind = "await"
             THEN /\ inflight' = <<Request(req.adapter, req.key, eff.stage,
                                                Append(req.answers, o))>>
                  /\ since' = SinceSent(req.adapter, eff.stage)
                  /\ UNCHANGED <<cache, pc, last, ev>>
             ELSE IF eff.kind = "raise"
             THEN /\ inflight' = <<>>
                  /\ pc' = "raised"
                  /\ UNCHANGED <<cache, last, ev, since>>
             ELSE /\ inflight' = <<>>
                  /\ cache' = CacheAfter(req.adapter, req.key, eff)
                  /\ Completed(req.adapter, req.key, eff, Append(req.answers, o))
                  /\ pc' = "idle"
                  /\ UNCHANGED since
    /\ UNCHANGED <<config, records, shared, now, runs, case_cites, statute_cites, idx, step, report, logged,
                   attempts, returned, calls, direct>>

NextAdapters ==
    \/ direct_call
    \/ direct_resume
    \/ Tick

SpecAdapters == InitAdapters /\ [][NextAdapters]_vars

---------------------------------------------------------------------------
(* Runs that share the disk cache: each awaits the verify method of one *)
(* adapter for the same citation, and the runs interleave at their awaits *)

Runs == 1..MaxRuns

\* The adapters whose read-then-write of the cache the runs go through
SharedAdapters == {"courtlistener", "nd_courts"}

\* The citations the runs verify
SharedKeys == { <<"2024", " ", "ND", " ", "156">>, <<"410", " ", "U.S.", " ", "113">> }

\* A run that has not called the adapter yet
IdleTask(key) ==
    [pc |-> "idle", key |-> key, stage |-> 0, answers |-> <<>>, result |-> <<>>]

InitShared ==
    /\ subject \in {<<a>> : a \in SharedAdapters}
    /\ api_key \in IF subject[1] = "courtlistener" THEN ApiKeys ELSE {<<>>}
    /\ \E key \in SharedKeys : tasks = [r \in Runs |-> IdleTask(key)]
    /\ writes = <<>>
    /\ court_data_dir = <<>>
    /\ memo = <<>>
    /\ now = 0
    /\ cache = NoCache
    /\ pc = "idle"
    /\ runs = 0
    /\ case_cites = <<>>
    /\ statute_cites = <<>>
    /\ idx = 0
    /\ step = 0
    /\ inflight = <<>>
    /\ report = EmptyReport
    /\ logged = <<>>
    /\ attempts = <<>>
    /\ returned = <<>>
    /\ calls = {}
    /\ last = NoHistory
    /\ ev = <<>>
    /\ direct = 0
    /\ since = <<>>
    /\ brief = NoBrief
    /\ numbers = <<>>
    /\ detected = <<>>
    /\ args = NoArgs
    /\ items = <<>>

\* The call of run r came to eff: the cache.set it made is written down
Written(r, eff) ==
    IF eff.kind = "return" /\ eff.store # NoStore
    THEN Append(writes, [run |-> r, value |-> eff.result, expire |-> eff.store[1].expire])
    ELSE writes

\* Run r calls the verify method: cache.get, and on a miss the request is sent
run_call(r) ==
    /\ tasks[r].pc = "idle"
    /\ LET eff == Enter(subject[1], tasks[r].key, FALSE)
       IN  /\ tasks' = [tasks EXCEPT ![r] =
                          IF eff.kind = "await"
                          THEN [@ EXCEPT !.pc = "await", !.stage = eff.stage]
                          ELSE [@ EXCEPT !.pc = "done", !.result = <<eff.result>>]]
           /\ cache' = CacheAfter(subject[1], tasks[r].key, eff)
           /\ writes' = Written(r, eff)
    /\ UNCHANGED <<config, records, now, pc, runs, case_cites, statute_cites, idx, step,
                   inflight, report, logged, attempts, returned, calls, history, since>>

\* The request of run r is answered: the rest of the verify method, with its
\* cache.set
run_resume(r) ==
    /\ tasks[r].pc = "await"
    /\ \E o \in Responses :
         LET req == [adapter |-> subject[1], key |-> tasks[r].key, stage |-> tasks[r].stage]
             eff == Resume(req, o)
         IN  /\ tasks' = [tasks EXCEPT ![r] =
                            IF eff.kind = "await"
                            THEN [@ EXCEPT !.stage = eff.stage, !.answers = Append(@, o)]
                            ELSE IF eff.kind = "raise"
                            THEN [@ EXCEPT !.pc = "raised", !.answers = Append(@, o)]
                            ELSE [@ EXCEPT !.pc = "done", !.answers = Append(@, o),
                                           !.result = <<eff.result>>]]
             /\ cache' = CacheAfter(subject[1], tasks[r].key, eff)
             /\ writes' = Written(r, eff)
    /\ UNCHANGED <<config, records, now, pc, runs, case_cites, statute_cites, idx, step,
                   inflight, report, logged, attempts, returned, calls, history, since>>

NextShared == \E r \in Runs : run_call(r) \/ run_resume(r)

SpecShared == InitShared /\ [][NextShared]_vars

---------------------------------------------------------------------------
(* The record citation extractor called on a brief *)

verifier == <<config, now, cache, pc, runs, case_cites, statute_cites, idx, step, inflight,
              report, logged, attempts, returned, calls, history, since, shared>>

\* A brief is read, and no memo is verified
InitRecords ==
    /\ brief \in Briefs
    /\ numbers = <<>>
    /\ detected = <<>>
    /\ args = NoArgs
    /\ items = <<>>
    /\ tasks = <<>>
    /\ writes = <<>>
    /\ api_key = <<>>
    /\ court_data_dir = <<>>
    /\ memo = <<>>
    /\ subject = <<>>
    /\ now = 0
    /\ cache = NoCache
    /\ pc = "idle"
    /\ runs = 0
    /\ case_cites = <<>>
    /\ statute_cites = <<>>
    /\ idx = 0
    /\ step = 0
    /\ inflight = <<>>
    /\ report = EmptyReport
    /\ logged = <<>>
    /\ attempts = <<>>
    /\ returned = <<>>
    /\ calls = {}
    /\ last = NoHistory
    /\ ev = <<>>
    /\ direct = 0
    /\ since = <<>>

\* extract_record_numbers is called on the text of the brief
extract ==
    /\ Len(numbers) < MaxCalls
    /\ numbers' = Append(numbers, extract_record_numbers(brief.text))
    /\ UNCHANGED <<brief, detected, args, items, verifier>>

NextRecords == extract

SpecRecords == InitRecords /\ [][NextRecords]_vars

---------------------------------------------------------------------------
(* format_items_file called on record numbers *)

InitItems ==
    /\ args \in ItemArgs
    /\ items = <<>>
    /\ tasks = <<>>
    /\ writes = <<>>
    /\ brief = NoBrief
    /\ numbers = <<>>
    /\ detected = <<>>
    /\ api_key = <<>>
    /\ court_data_dir = <<>>
    /\ memo = <<>>
    /\ subject = <<>>
    /\ now = 0
    /\ cache = NoCache
    /\ pc = "idle"
    /\ runs = 0
    /\ case_cites = <<>>
    /\ statute_cites = <<>>
    /\ idx = 0
    /\ step = 0
    /\ inflight = <<>>
    /\ report = EmptyReport
    /\ logged = <<>>
    /\ attempts = <<>>
    /\ returned = <<>>
    /\ calls = {}
    /\ last = NoHistory
    /\ ev = <<>>
    /\ direct = 0
    /\ since = <<>>

\* format_items_file is called on the arguments, on some day
format ==
    /\ Len(items) < MaxCalls
    /\ \E today \in Dates :
           items' = Append(items,
                      [today |-> today,
                       text |-> format_items_file(args.record_numbers, args.source_files,
                                                  args.case_number, today)])
    /\ UNCHANGED <<args, brief, numbers, detected, verifier>>

NextItems == format

SpecItems == InitItems /\ [][NextItems]_vars

---------------------------------------------------------------------------
(* detect_case_number called on a brief *)

InitDockets ==
    /\ brief \in DocketBriefs
    /\ numbers = <<>>
    /\ detected = <<>>
    /\ args = NoArgs
    /\ items = <<>>
    /\ tasks = <<>>
    /\ writes = <<>>
    /\ api_key = <<>>
    /\ court_data_dir = <<>>
    /\ memo = <<>>
    /\ subject = <<>>
    /\ now = 0
    /\ cache = NoCache
    /\ pc = "idle"
    /\ runs = 0
    /\ case_cites = <<>>
    /\ statute_cites = <<>>
    /\ idx = 0
    /\ step = 0
    /\ inflight = <<>>
    /\ report = EmptyReport
    /\ logged = <<>>
    /\ attempts = <<>>
    /\ returned = <<>>
    /\ calls = {}
    /\ last = NoHistory
    /\ ev = <<>>
    /\ direct = 0
    /\ since = <<>>

\* detect_case_number is called on the text of the brief
detect ==
    /\ detected = <<>>
    /\ detected' = <<detect_case_number(brief.text)>>
    /\ UNCHANGED <<brief, numbers, args, items, verifier>>

NextDockets == detect

SpecDockets == InitDockets /\ [][NextDockets]_vars

---------------------------------------------------------------------------
(* Claims about the fallback chain *)

\* The case citation the history variables attempts and returned are about:
\* the one whose chain is running, or has just returned
ChainCite == IF pc = "case_loop" THEN case_cites[idx - 1] ELSE case_cites[idx]

ChainActive == pc \in {"chain", "await_case"} \/ (pc = "case_loop" /\ returned # <<>>)

\* The place of a source in the order local, CourtListener, ND Courts
Rank(src) ==
    CASE src = "local" -> 1
      [] src = "courtlistener" -> 2
      [] src = "nd_courts" -> 3
      [] OTHER -> 4

\* The applicability of a source to a citation, as the fallback chain states it
Applicable(src, c) ==
    CASE src = "local" -> c.citation_type = "nd_case" /\ LocalAvailable
      [] src = "courtlistener" -> CourtListenerAvailable
      [] src = "nd_courts" -> c.citation_type = "nd_case"
      [] OTHER -> FALSE

Positive(i) == attempts[i].result.exists

\* C1: for every case citation the sources are consulted in the order local,
\* CourtListener, ND Courts; once a source has returned exists=true no later
\* source is called, and that source's result is what _verify_case returns;
\* every applicable source before the one that confirmed has been consulted.
C1_FallbackOrder ==
    ChainActive =>
        /\ \A i, j \in 1..Len(attempts) :
              i < j => Rank(attempts[i].source) < Rank(attempts[j].source)
        /\ \A i \in 1..Len(attempts) :
              Positive(i) => /\ i = Len(attempts)
                             /\ returned = <<attempts[i].result>>
                             /\ pc = "case_loop"
        /\ pc = "await_case" =>
              \A i \in 1..Len(attempts) :
                 Rank(attempts[i].source) < Rank(inflight[1].adapter)
        /\ returned # <<>> =>
              \A src \in {"local", "courtlistener", "nd_courts"} :
                 (/\ Applicable(src, ChainCite)
                  /\ \A i \in 1..Len(attempts) :
                        Positive(i) => Rank(src) < Rank(attempts[i].source))
                 => \E i \in 1..Len(attempts) : attempts[i].source = src

\* The local lookup missed, CourtListener confirmed, and the chain returned that
\* result without calling the scraper
C1_Witness ==
    /\ pc = "case_loop"
    /\ returned # <<>>
    /\ Len(attempts) = 2
    /\ attempts[1].source = "local"
    /\ attempts[2].source = "courtlistener"
    /\ attempts[2].result.exists
    /\ ChainCite.citation_type = "nd_case"

\* C2: a source of the chain is called only when it applies: the local adapter
\* only for an nd_case citation with local data available, CourtListener only
\* with an API key, the scraper only for an nd_case citation; so an nw2d or
\* us_case citation reaches neither the local adapter nor the scraper, and a
\* source that is not configured is passed over: no result says "not configured".
C2_CalledOnlyWhenApplicable ==
    /\ \A c \in calls :
          /\ c.adapter = "local" => c.citation_type = "nd_case" /\ LocalAvailable
          /\ c.adapter = "courtlistener" => CourtListenerAvailable
          /\ c.adapter = "nd_courts" => c.citation_type = "nd_case"
          /\ c.citation_type \in {"nw2d", "us_case"} => c.adapter \notin {"local", "nd_courts"}
    /\ \A i \in 1..Len(attempts) :
          attempts[i].result.error \notin {<<"No API key">>, <<"Local data not configured">>}
    /\ \A i \in 1..Len(report.unverified) :
          report.unverified[i][2].error \notin {<<"No API key">>, <<"Local data not configured">>}

\* An N.W.2d citation was verified with local data and an API key configured:
\* only CourtListener was called
C2_Witness ==
    /\ pc = "case_loop"
    /\ returned # <<>>
    /\ ChainCite.citation_type = "nw2d"
    /\ LocalAvailable
    /\ CourtListenerAvailable
    /\ calls = {[adapter |-> "courtlistener", citation_type |-> "nw2d"]}

\* The names under which the synthesized error lists the sources
SourceName(src) ==
    CASE src = "local" -> "local data"
      [] src = "courtlistener" -> "CourtListener"
      [] src = "nd_courts" -> "ND Courts"
      [] OTHER -> "?"

SourceNames == {"local data", "CourtListener", "ND Courts"}

\* The source names an error message holds, in the order it holds them
NamedIn(error) == SelectSeq(error, LAMBDA x : x \in SourceNames)

\* C3: when no attempted source returned exists=true, _verify_case returns a
\* result with exists=false and source "none" whose error names exactly the
\* sources that were attempted for the citation, and none when none was.
C3_NotFoundNamesAttempted ==
    (/\ pc = "case_loop"
     /\ returned # <<>>
     /\ \A i \in 1..Len(attempts) : ~Positive(i))
    => /\ returned[1].exists = FALSE
       /\ returned[1].source = "none"
       /\ returned[1].full_citation = ChainCite.normalized
       /\ returned[1].error # <<>>
       /\ NamedIn(returned[1].error) = [i \in 1..Len(attempts) |-> SourceName(attempts[i].source)]

\* A U.S. citation with local data configured and no API key: nothing was
\* attempted and the error names no source
C3_Witness ==
    /\ pc = "case_loop"
    /\ returned # <<>>
    /\ ChainCite.citation_type = "us_case"
    /\ LocalAvailable
    /\ ~CourtListenerAvailable
    /\ attempts = <<>>
    /\ returned[1].source = "none"
    /\ NamedIn(returned[1].error) = <<>>

---------------------------------------------------------------------------
(* Claims about the report *)

\* C4: every pair in verified has result.exists = TRUE and every pair in
\* unverified has result.exists = FALSE.
C4_VerifiedExistUnverifiedDoNot ==
    /\ \A i \in 1..Len(report.verified) : report.verified[i][2].exists = TRUE
    /\ \A i \in 1..Len(report.unverified) : report.unverified[i][2].exists = FALSE

\* A finished report with a confirmed citation and one that no source found,
\* whose result carries no error text
C4_Witness ==
    /\ pc = "done"
    /\ report.verified # <<>>
    /\ \E i \in 1..Len(report.unverified) : report.unverified[i][2].error = <<>>

\* C5: on the returned report total_checked = len(verified) + len(unverified),
\* and the summary is "Verified: V | Unverified: U | Skipped: S | Total: T" with
\* the three list lengths and T = total_checked.
C5_TotalAndSummary ==
    pc = "done" =>
        LET v == Len(report.verified)
            u == Len(report.unverified)
            k == Len(report.skipped)
        IN  /\ report.total_checked = v + u
            /\ logged = << <<"Verified: ">> \o Digits(v) \o <<" | Unverified: ">> \o Digits(u)
                           \o <<" | Skipped: ">> \o Digits(k) \o <<" | Total: ">>
                           \o Digits(report.total_checked) >>

\* A finished report with checked and skipped citations
C5_Witness ==
    /\ pc = "done"
    /\ report.skipped # <<>>
    /\ report.total_checked = 1
    /\ report.unverified # <<>>

KindsOfPairs(pairs) == { p[1].citation_type : p \in Range(pairs) }
KindsOf(cites) == { c.citation_type : c \in Range(cites) }

\* A citation as the data model identifies it: kind and normalized text
Identity(c) == <<c.citation_type, c.normalized>>

\* C6 as stated: in a report verify_memo produced no citation kind appears in
\* two of verified, unverified and skipped.
C6_NoKindInTwoLists ==
    pc = "done" =>
        /\ KindsOfPairs(report.verified) \cap KindsOfPairs(report.unverified) = {}
        /\ KindsOfPairs(report.verified) \cap KindsOf(report.skipped) = {}
        /\ KindsOfPairs(report.unverified) \cap KindsOf(report.skipped) = {}

\* C6 as amended: no citation kind appears in skipped and in one of verified and
\* unverified, and no citation (kind and normalized text) appears in two of the
\* three lists, or twice among verified and unverified.
C6_NoCitationInTwoLists ==
    LET checked == report.verified \o report.unverified
    IN  /\ KindsOfPairs(checked) \cap KindsOf(report.skipped) = {}
        /\ \A i, j \in 1..Len(checked) :
              Identity(checked[i][1]) = Identity(checked[j][1]) => i = j
        /\ \A i \in 1..Len(checked), j \in 1..Len(report.skipped) :
              Identity(checked[i][1]) # Identity(report.skipped[j])

\* A finished report that holds one statute in verified and another in unverified
C6_Witness ==
    /\ pc = "done"
    /\ "ndcc" \in KindsOfPairs(report.verified)
    /\ "ndcc" \in KindsOfPairs(report.unverified)

\* C7: after verify_memo skipped holds exactly the citations parse_citations
\* emits whose kind is record, nd_rule_app, nd_rule_civ or nd_rule_ev, every
\* occurrence of them, in parse order, and nothing else.
C7_SkippedAreRecordAndRuleCitations ==
    pc = "done" =>
        report.skipped =
            SelectSeq(parse_citations(memo),
                      LAMBDA c : c.citation_type \in
                                   {"record", "nd_rule_app", "nd_rule_civ", "nd_rule_ev"})

\* A memo line that holds a record reference before a rule citation: the rule
\* pattern is applied first, so the rule citation is skipped first
C7_Witness ==
    /\ pc = "done"
    /\ Len(memo) = 2
    /\ memo[1].ctype = "record"
    /\ memo[2].ctype = "nd_rule_civ"
    /\ Len(report.skipped) = 2
    /\ report.skipped[1].citation_type = "nd_rule_civ"
    /\ report.skipped[2].citation_type = "record"

---------------------------------------------------------------------------
(* Claims about the adapters' caches *)

\* The seconds of the 24-hour expiry
DaySeconds == 24 * 60 * 60

\* The last call of an adapter, when an earlier verification of the same
\* citation by the same adapter was not answered from the cache
Reverified == ev # <<>> /\ ev[1].prev # <<>>

\* The cache window of that earlier verification is still open: a positive
\* result has no expiry, a negative one expires after 24 hours
InCacheWindow ==
    LET first == ev[1].prev[1]
    IN  first.result.exists \/ now < first.at + DaySeconds

\* C9: for every adapter and citation, a second verification of the citation
\* within the cache window returns the result of the first one without a second
\* external lookup, whatever the outcome of the first one was.
C9_SecondVerificationFromCache ==
    (Reverified /\ InCacheWindow) =>
        /\ ev[1].how \notin {"lookup", "failed"}
        /\ ev[1].result = ev[1].prev[1].result

\* The adapters that hold a cache partition
CachingAdapters == {"courtlistener", "nd_courts", "nd_statutes", "caselaw"}

NegativeCached ==
    /\ Reverified
    /\ ev[1].prev[1].stored
    /\ ~ev[1].prev[1].result.exists

\* C11: a citation whose cached result is negative triggers no external lookup
\* when it is verified again before the 24-hour expiry, and exactly one
\* external lookup attempt, not zero and not two, when it is verified again
\* after the expiry has elapsed.
C11_OneLookupAfterExpiry ==
    NegativeCached =>
        IF ev[1].at < ev[1].prev[1].at + DaySeconds
        THEN /\ ev[1].how = "cache"
             /\ ev[1].lookups = 0
             /\ ev[1].result = ev[1].prev[1].result
        ELSE ev[1].lookups = 1


---------------------------------------------------------------------------
(* Claims about failed lookups *)

\* The answers that are an exception or a non-success HTTP status
Failures == {"http_error", "timeout", "connect_error"}

\* A request of the last call ended in an exception or a non-success status
LookupFailed ==
    /\ ev # <<>>
    /\ \E i \in 1..Len(ev[1].answers) : ev[1].answers[i] \in Failures

\* C12: for every adapter, a call during whose external lookup a request
\* raised an exception or was answered with a non-success HTTP status returns
\* a VerificationResult with exists=false and a non-empty error.
C12_FailureYieldsError ==
    LookupFailed =>
        /\ ev[1].result.exists = FALSE
        /\ ev[1].result.error # <<>>

\* C13: a negative result that comes from a transient failure (timeout,
\* connection error, non-2xx status) is in the adapter's cache with an expiry
\* 24 hours after the call, and a verification of the same citation before
\* that expiry makes no lookup.
C13_FailureCachedForADay ==
    /\ (LookupFailed /\ ~ev[1].result.exists) =>
          cache[ev[1].adapter][ev[1].key] =
              <<[value |-> ev[1].result, expire_time |-> <<ev[1].at + DaySeconds>>]>>
    /\ (Reverified /\ ~ev[1].prev[1].result.exists /\ ev[1].adapter \in CachingAdapters
         /\ ev[1].at < ev[1].prev[1].at + DaySeconds) =>
          ev[1].lookups = 0

\* C14: a call that misses the cache and looks the citation up makes exactly
\* one external lookup attempt, one request or one look at the file system,
\* never two.
C14_OneLookupPerCall ==
    (ev # <<>> /\ ev[1].how \in {"lookup", "failed"}) => ev[1].lookups = 1


---------------------------------------------------------------------------
(* Claims about a whole run *)

\* The citations of a list of (citation, result) pairs
CitationsIn(pairs) == { p[1] : p \in Range(pairs) }

\* Every unique case citation and every unique statute citation of the memo
\* has its result in the report
AllProcessed ==
    CitationsIn(report.verified) \cup CitationsIn(report.unverified)
        = Range(extract_unique_case_citations(memo))
          \cup Range(extract_unique_statute_citations(memo))

NoSourceConfigured == ~CourtListenerAvailable /\ ~LocalAvailable

\* C16: when no source is configured, every case citation and every statute
\* citation of the memo is in unverified with a non-empty error message, and
\* verified is empty.
C16_UnconfiguredAllUnverified ==
    (pc = "done" /\ NoSourceConfigured) =>
        /\ report.verified = <<>>
        /\ CitationsIn(report.unverified)
              = Range(extract_unique_case_citations(memo))
                \cup Range(extract_unique_statute_citations(memo))
        /\ \A i \in 1..Len(report.unverified) : report.unverified[i][2].error # <<>>


\* The citations that have their result in the report
Processed == CitationsIn(report.verified) \cup CitationsIn(report.unverified)

\* The citations 1..n of a list
FirstOf(cites, n) == { cites[j] : j \in 1..n }

\* The place of a citation in the order of processing: the unique case
\* citations as extracted, then the unique statute citations as extracted
PlaceOf(c) ==
    LET all == case_cites \o statute_cites
    IN  CHOOSE j \in 1..Len(all) : all[j] = c

\* The results of a list were appended in the order of processing
InOrder(pairs) ==
    \A i, j \in 1..Len(pairs) : i < j => PlaceOf(pairs[i][1]) < PlaceOf(pairs[j][1])

\* C17: within a run the citations are verified one after the other: at most
\* one lookup is in flight, and it belongs to the citation at the head of the
\* loop; a citation's chain starts when every citation before it has its
\* result in the report; the unique case citations are processed in their
\* extracted order, all of them before any statute citation, and the statute
\* citations in theirs.
C17_Sequential ==
    /\ Len(inflight) <= 1
    /\ pc \in {"case_loop", "chain", "await_case"} =>
          /\ case_cites = extract_unique_case_citations(memo)
          /\ Processed = FirstOf(case_cites, idx - 1)
          /\ inflight # <<>> => /\ pc = "await_case"
                                /\ inflight[1].key = case_cites[idx].normalized
                                /\ inflight[1].adapter \in Range(Chain)
          /\ pc # "case_loop" =>
                \A i \in 1..Len(attempts) : /\ attempts[i].source \in Range(Chain)
                                             /\ ~attempts[i].result.exists
    /\ pc \in {"statute_loop", "await_statute"} =>
          /\ statute_cites = extract_unique_statute_citations(memo)
          /\ Processed = Range(case_cites) \cup FirstOf(statute_cites, idx - 1)
          /\ inflight # <<>> => /\ pc = "await_statute"
                                /\ inflight[1].key = statute_cites[idx].normalized
                                /\ inflight[1].adapter = "nd_statutes"
    /\ pc \in {"idle", "done"} => inflight = <<>>
    /\ pc # "idle" => InOrder(report.verified) /\ InOrder(report.unverified)

\* The chain of the second case citation is suspended on a request while the
\* first one, and nothing else, has its result in the report
C17_Witness ==
    /\ pc = "await_case"
    /\ Len(case_cites) = 2
    /\ idx = 2
    /\ Processed = {case_cites[1]}
    /\ inflight[1].key = case_cites[2].normalized


---------------------------------------------------------------------------
(* Claims about the scrapers *)

\* C18: every request a live-site scraper (ND Courts, ND statutes) sends is
\* preceded by a sleep of one second, so within a verify_memo run a scraper
\* request is sent no less than one second after the scraper request before it.
C18_OneRequestPerSecond ==
    (inflight # <<>> /\ inflight[1].adapter \in {"nd_courts", "nd_statutes"}) =>
        /\ inflight[1].slept >= 1
        /\ inflight[1].gap # <<>> => inflight[1].gap[1] >= 1

\* The statute scraper has sent its site search, its second request of the
\* run, one second after the first
C18_Witness ==
    /\ pc = "await_statute"
    /\ inflight[1].adapter = "nd_statutes"
    /\ inflight[1].stage = 2
    /\ inflight[1].gap = <<1>>


\* The section has no "-" outside its subsections, the text from the first
\* "(" to the last ")": it does not split into title and chapter
NoTitleChapter(section) ==
    \A i \in 1..Len(section) :
        section[i] = "-" =>
            /\ \E j \in 1..(i - 1) : section[j] = "("
            /\ \E k \in (i + 1)..Len(section) : section[k] = ")"

\* C19: a statute citation that does not split into title and chapter once
\* its subsections are stripped is answered with exists=false at once: the
\* statute adapter sends no request for it.
C19_NoRequestWithoutChapter ==
    /\ (ev # <<>> /\ ev[1].adapter = "nd_statutes" /\ NoTitleChapter(ev[1].key)) =>
          /\ ev[1].result.exists = FALSE
          /\ ev[1].lookups = 0
          /\ ev[1].how \in {"none", "cache"}
    /\ (inflight # <<>> /\ inflight[1].adapter = "nd_statutes") =>
          ~NoTitleChapter(inflight[1].key)

\* The statute adapter answered a section whose only "-" stands in a
\* subsection, without a request
C19_Witness ==
    /\ ev # <<>>
    /\ ev[1].adapter = "nd_statutes"
    /\ ev[1].key = <<"14", "(", "1", "-", "2", ")">>
    /\ ev[1].how = "none"
    /\ ev[1].result.exists = FALSE


---------------------------------------------------------------------------
(* Claims about the record citation extractor *)

\* C20: for a range reference [prefix]A-[prefix]B with A <= B and at most
\* 1000 numbers from A to B, extract_record_numbers returns exactly the
\* integers A..B, whatever the spelling of the prefix (R, R., Rec, Rec., Idx,
\* Idx., in any letter case), with or without a prefix before B, parenthesized
\* or bare; so the two forms of one range give the same set.
C20_RangeExpanded ==
    (numbers # <<>> /\ brief.kind = "range"
     /\ brief.first <= brief.last /\ brief.last - brief.first + 1 <= 1000) =>
        numbers[1] = brief.first..brief.last

\* The range of a brief is one that _expand_range is to expand
Expandable == brief.first <= brief.last /\ brief.last - brief.first + 1 <= 1000

\* C21: in both phases a range A-B contributes all of A..B only when A <= B
\* and B-A+1 <= 1000; when B < A or B-A+1 > 1000 it contributes exactly the
\* two numbers A and B, and no range contributes more than 1000 numbers.
C21_RangeExpansionPolicy ==
    (numbers # <<>> /\ brief.kind = "range") =>
        /\ ~Expandable => numbers[1] = {brief.first, brief.last}
        /\ (numbers[1] = brief.first..brief.last /\ Cardinality(numbers[1]) > 2)
               => Expandable
        /\ Cardinality(numbers[1]) <= 1000

\* C22: for a reference [prefix]N:page or [prefix]N:page:paragraph,
\* parenthesized or bare, extract_record_numbers yields N alone: the page and
\* the paragraph after a colon are not in the result.
C22_OnlyNumberBeforeColon ==
    (numbers # <<>> /\ brief.kind = "page") => numbers[1] = {brief.number}

C22_Witness ==
    /\ numbers # <<>>
    /\ brief.kind = "page"
    /\ brief.paren
    /\ brief.paragraph = <<":", "¶", "3">>
    /\ brief.page \notin numbers[1]
    /\ numbers[1] = {45}

\* C23: a bare prefix match (R, Rec, Idx) whose preceding character is a
\* letter or a period is rejected, and the rule citations N.D.R.Civ.P. 12(b),
\* N.D.R.App.P. 35.1 and N.D.R.Ev. 401 contribute no record number.
C23_BareGuard ==
    numbers # <<>> =>
        /\ (brief.kind = "following" /\ brief.before \in Letters \cup {"."})
               => numbers[1] = {}
        /\ brief.kind = "rule" => numbers[1] = {}

C23_Witness ==
    /\ numbers # <<>>
    /\ brief.kind = "following"
    /\ brief.before = "."
    /\ brief.prefix = <<"R", "e", "c", ".", " ">>
    /\ numbers[1] = {}

\* C24: extract_record_numbers returns a set of integers >= 0 that is the same
\* at every call on the same text, and a record number referenced twice,
\* through parenthesized or bare references, is in it once: the result for
\* two references to N is {N}.
C24_DeduplicatedAndDeterministic ==
    /\ \A k \in 1..Len(numbers) : numbers[k] \subseteq Nat
    /\ \A j, k \in 1..Len(numbers) : numbers[j] = numbers[k]
    /\ (numbers # <<>> /\ brief.kind = "repeat") => numbers[1] = {brief.number}

C24_Witness ==
    /\ Len(numbers) = 2
    /\ brief.kind = "repeat"
    /\ brief.first = <<"(", "R", "4", "5", ")">>
    /\ brief.second = <<"R", "e", "c", ".", "4", "5">>
    /\ Phase1(brief.text) = {45}
    /\ Phase2(brief.text) = {45}
    /\ numbers[2] = {45}

---------------------------------------------------------------------------
(* Claims about the items file *)

\* The lines of the k-th items file: str.split("\n") of its text
LinesOf(k) == SplitOn("\n", items[k].text)

\* Whether a "# Case:" line is written: 1 or 0
CaseLines == IF args.case_number # <<>> THEN 1 ELSE 0

\* The number an item line "R<n>" names, -1 if the line is no item line
ItemOf(line) ==
    IF Len(line) > 1 /\ line[1] = "R" /\ \A i \in 2..Len(line) : line[i] \in DigitChars
    THEN ToInt(Tail(line)) ELSE -1

\* C25: format_items_file writes, in this order, the header comment, a
\* "# Case: <n>" line if and only if case_number is not empty, the source
\* line, the date line, "# Total unique items: N" with N the number of record
\* numbers, and one "R<n>" line for each record number in strictly ascending
\* order; two outputs for the same arguments differ in the date line at most.
C25_ItemsFile ==
    \A k \in 1..Len(items) :
        LET lines == LinesOf(k)
            n == Cardinality(args.record_numbers)
            at == 4 + CaseLines
        IN  /\ Len(lines) = at + n + 1
            /\ lines[Len(lines)] = <<>>
            /\ lines[1] = <<"# Record citations extracted from briefs">>
            /\ args.case_number # <<>> => lines[2] = <<"# Case: ">> \o args.case_number
            /\ args.case_number = <<>> =>
                    \A i \in 1..Len(lines) : lines[i] = <<>> \/ lines[i][1] # "# Case: "
            /\ lines[at - 2] = <<"# Source: ">> \o Join(<<", ">>, args.source_files)
            /\ lines[at - 1] = <<"# Date: ">> \o isoformat(items[k].today)
            /\ lines[at] = <<"# Total unique items: ">> \o Digits(n)
            /\ \A i \in 1..n : ItemOf(lines[at + i]) \in args.record_numbers
            /\ \A i \in 1..(n - 1) : ItemOf(lines[at + i]) < ItemOf(lines[at + i + 1])
            /\ \A j \in 1..Len(items) :
                    /\ Len(LinesOf(j)) = Len(lines)
                    /\ \A i \in 1..Len(lines) : i # at - 1 => LinesOf(j)[i] = lines[i]

C25_Witness ==
    /\ Len(items) = 2
    /\ items[1].today # items[2].today
    /\ args.record_numbers = {2, 10, 33}
    /\ args.case_number = <<"20260123">>
    /\ args.source_files = << <<"a.pdf">>, <<"b.pdf">> >>
    /\ items[2].text =
          <<"# Record citations extracted from briefs", "\n",
            "# Case: ", "20260123", "\n",
            "# Source: ", "a.pdf", ", ", "b.pdf", "\n",
            "# Date: ">> \o isoformat(items[2].today) \o <<"\n",
            "# Total unique items: ", "3", "\n",
            "R", "2", "\n", "R", "1", "0", "\n", "R", "3", "3", "\n">>

---------------------------------------------------------------------------
(* Claims about the case number *)

\* C26: detect_case_number returns the docket number that follows a label
\* (Case No., Case Number:, No.) whenever the text has one, even after an
\* earlier bare 8-digit token; without a labeled docket number it returns the
\* first bare 8-digit token that begins with 20, and "" if there is none.
C26_LabeledThenBare ==
    (detected # <<>> /\ brief.kind = "docket") =>
        detected[1] = IF brief.labeled # <<>> THEN brief.labeled[1]
                      ELSE IF brief.tokens # <<>> THEN brief.tokens[1]
                      ELSE <<>>

C26_Witness ==
    /\ detected # <<>>
    /\ brief.kind = "docket"
    /\ brief.labeled = <<Digits(20260123)>>
    /\ brief.tokens = <<Digits(20250001), Digits(20260123), Digits(20270007)>>
    /\ detected[1] = Digits(20260123)

---------------------------------------------------------------------------
(* Claims about the two phases of the record citation extractor *)

\* C29: a bare reference that begins inside the span of a parenthesized group
\* contributes nothing: of ([prefix]N<between>[prefix]M) the result holds N,
\* which the rules for a segment give, and not M, and a bare reference after
\* the group is added.
C29_BareInsideGroupSkipped ==
    (numbers # <<>> /\ brief.kind = "inside") =>
        /\ brief.inner \notin numbers[1]
        /\ numbers[1] = {brief.number} \cup brief.outer

C29_Witness ==
    /\ numbers # <<>>
    /\ brief.kind = "inside"
    /\ brief.between = <<":", "1", "2", " ">>
    /\ brief.outer = {47}
    /\ Phase2_everywhere(brief.text) = {45, 46, 47}
    /\ numbers[1] = {45, 47}

\* C30: a parenthesized span whose first word begins with R and is not a
\* record prefix followed by a number, such as (Rule 12) or
\* (Reversed, 2020), is no record citation group and contributes no number.
C30_ParenWordGuard ==
    (numbers # <<>> /\ brief.kind = "word") => numbers[1] = {}

---------------------------------------------------------------------------
(* Claims about the unique citations *)

\* The places in a list of citations where a citation of one of the kinds
\* has a normalized key that no earlier citation of these kinds has
FirstPlaces(all, types) ==
    { k \in 1..Len(all) :
        /\ all[k].citation_type \in types
        /\ \A j \in 1..(k - 1) :
              all[j].citation_type \in types => all[j].normalized # all[k].normalized }

\* The citations at these places, in the order of the list
FirstOccurrences(all, types) ==
    LET P == FirstPlaces(all, types)
    IN  [i \in 1..Cardinality(P) |->
            all[CHOOSE k \in P : Cardinality({x \in P : x <= k}) = i]]

\* The statute citations of the run have been extracted
StatutesExtracted == pc \in {"statute_loop", "await_statute", "done"}

\* C27: extract_unique_case_citations and extract_unique_statute_citations
\* return, for their kinds, one citation for each normalized key of the text,
\* its first occurrence, in the order in which parse_citations lists them; no
\* two of them share a key, and a run checks each of them at most once.
C27_UniqueFirstOccurrences ==
    LET all == parse_citations(memo)
        checked == report.verified \o report.unverified
    IN  /\ runs > 0 =>
            /\ case_cites = FirstOccurrences(all, CaseTypes)
            /\ \A i, j \in 1..Len(case_cites) :
                  case_cites[i].normalized = case_cites[j].normalized => i = j
        /\ StatutesExtracted =>
            /\ statute_cites = FirstOccurrences(all, {"ndcc"})
            /\ \A i, j \in 1..Len(statute_cites) :
                  statute_cites[i].normalized = statute_cites[j].normalized => i = j
        /\ \A i, j \in 1..Len(checked) :
              checked[i][1].normalized = checked[j][1].normalized => i = j
        /\ report.total_checked
              <= Cardinality(FirstPlaces(all, CaseTypes) \cup FirstPlaces(all, {"ndcc"}))

\* A finished run on a memo that cites 2024 ND 156 twice, spelled in two ways
C27_Witness ==
    /\ pc = "done"
    /\ Len(parse_citations(memo)) = 2
    /\ \A k \in 1..2 : parse_citations(memo)[k].normalized = <<"2024", " ", "ND", " ", "156">>
    /\ parse_citations(memo)[1].raw_text # parse_citations(memo)[2].raw_text
    /\ case_cites = <<parse_citations(memo)[1]>>
    /\ report.total_checked = 1

---------------------------------------------------------------------------
(* Claims about runs that share the disk cache *)

\* C28: when runs share the disk cache and interleave, each run makes at most
\* one external lookup for the key, the values the runs write for the key are
\* one and the same, so that the entry cached in the end does not depend on
\* the interleaving, and no write of a negative result with its 24-hour expiry
\* follows the write of a positive result, which has no expiry.
C28_SharedCacheRace ==
    /\ \A r \in DOMAIN tasks : Len(tasks[r].answers) <= 1
    /\ \A i, j \in 1..Len(writes) : writes[i].value = writes[j].value
    /\ \A i, j \in 1..Len(writes) :
          (i < j /\ writes[i].value.exists /\ writes[i].expire = <<>>)
              => ~(~writes[j].value.exists /\ writes[j].expire = <<NegativeExpire>>)

=============================================================================
